---- MODULE Spec2Model ----
(***************************************************************************)
(* The order and subscription mutations of                                 *)
(* src/server/graphql/v1/mutations/orders.js as a state machine.           *)
(*                                                                         *)
(* Every exported mutation is a call that runs in a slot.  A call is cut   *)
(* into steps at its awaits: what lies between two awaits runs without     *)
(* interruption (one JavaScript event-loop turn), and other calls may run  *)
(* between two steps.                                                      *)
(***************************************************************************)
EXTENDS Integers, Sequences, FiniteSets, TLC

VARIABLES
    nodeEnv,       \* process.env.NODE_ENV
    ordersLimits,  \* config.limits.ordersPerHour
    cache,         \* lib/cache: key -> stored counter (0: no entry)
    attempts,      \* history: per key, the checks made in the open window
    passed,        \* history: per key, the checks that passed in the window
    expiries,      \* history: the cache entries that have lapsed so far
    calls,         \* per slot: the call in flight, its position and locals
    orders,        \* table Orders: the rows in the order of their ids
    subs,          \* table Subscriptions
    collectives,   \* table Collectives: the rows created since the start
    users,         \* table Users: the rows created since the start
    pms,           \* table PaymentMethods: the rows created since the start
    transactions,  \* table Transactions (append-only)
    members,       \* table Members: the role grants made since the start
    activities,    \* table Activities
    pendingErr,    \* orders whose un-awaited update to ERROR is still on its way
    started        \* history: the mutations called so far

limVars == <<cache, attempts, passed, expiries>>
envVars == <<nodeEnv, ordersLimits>>
cfgVars == <<nodeEnv, ordersLimits, started>>
dbVars ==
    <<orders, subs, collectives, users, pms, transactions, members, activities,
      pendingErr>>
vars ==
    <<nodeEnv, ordersLimits, cache, attempts, passed, expiries, calls,
      orders, subs, collectives, users, pms, transactions, members, activities,
      pendingErr, started>>

----------------------------------------------------------------------------
(* Bounds of the model *)

\* the values a threshold of config.limits.ordersPerHour may be configured to
Thresholds == {1, 2}
\* a call starts only while every counter it may touch is below MaxCount
MaxCount == 3
\* at most MaxExpiries cache entries lapse in one behaviour
MaxExpiries == 1
\* createOrder is called at most MaxCreateCalls times when it is called alone
MaxCreateCalls == 1
\* at most MaxCalls mutations are called in one behaviour of the orders' life
MaxCalls == 3

\* the calls that may be in flight at once
Slots == {"s1", "s2"}
\* the slot of the calls that follow one another
SeqSlot == "s1"

\* an absent id or an absent string of a request (both falsy in the code)
NoId == 0
NoStr == ""
Idle == [op |-> "idle"]

Min(a, b) == IF a <= b THEN a ELSE b

\* the tables as they are before the first request
EmptyDb ==
    /\ orders = <<>>
    /\ subs = <<>>
    /\ collectives = <<>>
    /\ users = <<>>
    /\ pms = <<>>
    /\ transactions = <<>>
    /\ members = {}
    /\ activities = <<>>
    /\ pendingErr = {}

----------------------------------------------------------------------------
(* The rate limiter: checkOrdersLimit *)

\* md5(x): only the identity of the digest matters to the key
Md5(x) == <<"md5", x>>

LimitNames ==
    {"perAccount", "perAccountForCollective", "perEmail",
     "perEmailForCollective", "perIp"}

\* the requests the limiter is driven with: ids of the source account and the
\* destination, the submitted email and the request's address (NoId, NoStr: absent)
LimFromIds == {NoId, 4}
LimCollectiveIds == {NoId, 1}
LimEmails == {NoStr, "new@x"}
LimIps == {"ip1"}

LimKeys ==
    {<<"account", f>> : f \in LimFromIds \ {NoId}}
    \cup {<<"account_collective", f, c>> :
             f \in LimFromIds \ {NoId}, c \in LimCollectiveIds \ {NoId}}
    \cup {<<"email", Md5(e)>> : e \in LimEmails \ {NoStr}}
    \cup {<<"email_collective", Md5(e), c>> :
             e \in LimEmails \ {NoStr}, c \in LimCollectiveIds \ {NoId}}
    \cup {<<"ip", Md5(a)>> : a \in LimIps \ {NoStr}}

\* the limits list built for one request, in the order the loop reads it
OrderLimits(collectiveId, fromCollectiveId, userEmail, reqIp) ==
    IF fromCollectiveId # NoId
    THEN <<[key |-> <<"account", fromCollectiveId>>, name |-> "perAccount"]>>
         \o (IF collectiveId # NoId
             THEN <<[key |-> <<"account_collective", fromCollectiveId, collectiveId>>,
                     name |-> "perAccountForCollective"]>>
             ELSE <<>>)
    ELSE (IF userEmail # NoStr
          THEN <<[key |-> <<"email", Md5(userEmail)>>, name |-> "perEmail"]>>
               \o (IF collectiveId # NoId
                   THEN <<[key |-> <<"email_collective", Md5(userEmail), collectiveId>>,
                           name |-> "perEmailForCollective"]>>
                   ELSE <<>>)
          ELSE <<>>)
         \o (IF reqIp # NoStr
             THEN <<[key |-> <<"ip", Md5(reqIp)>>, name |-> "perIp"]>>
             ELSE <<>>)

\* the environments in which checkOrdersLimit returns at once
LimiterOff(env) == env \in {"circleci", "test"}

LimitReached_gt(count, value) == count > value

\* const limitReached = count >= limit.value
LimitReached(count, value) == count >= value

CounterAfter_skip(count, reached) == IF reached THEN count ELSE count + 1

CounterAfter_same(count, reached) == count

\* cache.set(limit.key, count + 1, oneHourInSeconds), whatever limitReached is
CounterAfter(count, reached) == count + 1

\* limit.value: the threshold read from ordersLimits for an entry of the list
LimitValue(l) == ordersLimits[l.name]

\* the threshold a key is pushed with
KeyLimitName(k) ==
    CASE k[1] = "account" -> "perAccount"
      [] k[1] = "account_collective" -> "perAccountForCollective"
      [] k[1] = "email" -> "perEmail"
      [] k[1] = "email_collective" -> "perEmailForCollective"
      [] OTHER -> "perIp"

KeysOf(limits) == {limits[j].key : j \in 1..Len(limits)}

\* a call is between its start and its return
InFlight(c) == calls[c].op # "idle"

\* checkOrdersLimit(order, remoteUser, reqIp) is called
LimBegin(c, collectiveId, fromCollectiveId, userEmail, reqIp) ==
    LET limits == OrderLimits(collectiveId, fromCollectiveId, userEmail, reqIp)
        off == LimiterOff(nodeEnv)
    IN  /\ calls[c] = Idle
        /\ \A k \in KeysOf(limits) : cache[k] < MaxCount
        /\ calls' = [calls EXCEPT ![c] =
              [op |-> "checkOrdersLimit",
               pc |-> IF off \/ limits = <<>> THEN "done" ELSE "get",
               limits |-> IF off THEN <<>> ELSE limits,
               i |-> IF off \/ limits = <<>> THEN 0 ELSE 1,
               count |-> 0,
               result |-> IF off \/ limits = <<>> THEN "pass" ELSE NoStr,
               before |-> [j \in 1..Len(limits) |-> cache[limits[j].key]]]]
        /\ UNCHANGED <<cfgVars, limVars, dbVars>>

\* const count = (await cache.get(limit.key)) || 0
LimGet(c) ==
    /\ calls[c].op = "checkOrdersLimit"
    /\ calls[c].pc = "get"
    /\ calls' = [calls EXCEPT ![c].count = cache[calls[c].limits[calls[c].i].key],
                              ![c].pc = "set"]
    /\ UNCHANGED <<cfgVars, limVars, dbVars>>

\* the rest of the loop body: compare, cache.set, throw or go to the next limit
LimSet(c) ==
    LET l == calls[c].limits[calls[c].i]
        reached == LimitReached(calls[c].count, LimitValue(l))
        last == calls[c].i = Len(calls[c].limits)
    IN  /\ calls[c].op = "checkOrdersLimit"
        /\ calls[c].pc = "set"
        /\ cache' = [cache EXCEPT ![l.key] = CounterAfter(calls[c].count, reached)]
        /\ attempts' = [attempts EXCEPT ![l.key] = @ + 1]
        /\ passed' = [passed EXCEPT ![l.key] = IF reached THEN @ ELSE @ + 1]
        /\ calls' = [calls EXCEPT
              ![c].pc = IF reached \/ last THEN "done" ELSE "get",
              ![c].i = IF reached \/ last THEN @ ELSE @ + 1,
              ![c].result = IF reached THEN "limit" ELSE IF last THEN "pass" ELSE @]
        /\ UNCHANGED <<cfgVars, expiries, dbVars>>

\* the caller has the outcome of checkOrdersLimit
LimReturn(c) ==
    /\ calls[c].op = "checkOrdersLimit"
    /\ calls[c].pc = "done"
    /\ calls' = [calls EXCEPT ![c] = Idle]
    /\ UNCHANGED <<cfgVars, limVars, dbVars>>

\* the entry of key k lapses (oneHourInSeconds after its last write): the window
\* of k closes.  No call that checks k straddles the end of the window.
Expire(k) ==
    /\ cache[k] > 0
    /\ expiries < MaxExpiries
    /\ \A c \in Slots : InFlight(c) => k \notin KeysOf(calls[c].limits)
    /\ cache' = [cache EXCEPT ![k] = 0]
    /\ attempts' = [attempts EXCEPT ![k] = 0]
    /\ passed' = [passed EXCEPT ![k] = 0]
    /\ expiries' = expiries + 1
    /\ UNCHANGED <<cfgVars, calls, dbVars>>

InitLimiter ==
    /\ nodeEnv \in {"production", "test"}
    /\ ordersLimits \in [LimitNames -> Thresholds]
    /\ cache = [k \in LimKeys |-> 0]
    /\ attempts = [k \in LimKeys |-> 0]
    /\ passed = [k \in LimKeys |-> 0]
    /\ expiries = 0
    /\ started = 0
    /\ calls = [c \in Slots |-> Idle]
    /\ EmptyDb

LimStart(c) ==
    \E col \in LimCollectiveIds, f \in LimFromIds, e \in LimEmails, a \in LimIps :
        LimBegin(c, col, f, e, a)

\* the calls follow one another: a call starts when no other is in flight
NextLimiterSeq ==
    \/ LimStart(SeqSlot)
    \/ LimGet(SeqSlot)
    \/ LimSet(SeqSlot)
    \/ LimReturn(SeqSlot)
    \/ \E k \in LimKeys : Expire(k)

SpecLimiterSeq == InitLimiter /\ [][NextLimiterSeq]_vars

\* the limiter runs (NODE_ENV is production) with one threshold for all limits
InitRace ==
    /\ nodeEnv = "production"
    /\ \E t \in Thresholds : ordersLimits = [n \in LimitNames |-> t]
    /\ cache = [k \in LimKeys |-> 0]
    /\ attempts = [k \in LimKeys |-> 0]
    /\ passed = [k \in LimKeys |-> 0]
    /\ expiries = 0
    /\ started = 0
    /\ calls = [c \in Slots |-> Idle]
    /\ EmptyDb

\* a call for the account of user 1, with or without a destination, starts
\* while another call may be in flight
RaceStart(c) ==
    /\ \A k \in LimKeys : attempts[k] < MaxCount
    /\ \E col \in LimCollectiveIds, a \in LimIps : LimBegin(c, col, 4, NoStr, a)

\* the calls of checkOrdersLimit interleave at their awaits
NextRace ==
    \/ \E c \in Slots :
          \/ RaceStart(c)
          \/ LimGet(c)
          \/ LimSet(c)
          \/ LimReturn(c)
    \/ \E k \in LimKeys : Expire(k)

SpecRace == InitRace /\ [][NextRace]_vars

----------------------------------------------------------------------------
(* The rows the tables hold before the first request, and the lookups *)

\* Collectives 1..8: a hosted collective, a hosted event, their host, the
\* account of user 1, a collective that is not active yet, the accounts of
\* users 2 and 3, an event that is not active yet
BaseCollectives ==
    <<[type |-> "COLLECTIVE", isActive |-> TRUE, currency |-> "USD", HostCollectiveId |-> 3],
      [type |-> "EVENT", isActive |-> TRUE, currency |-> "USD", HostCollectiveId |-> 3],
      [type |-> "ORGANIZATION", isActive |-> TRUE, currency |-> "USD", HostCollectiveId |-> 3],
      [type |-> "USER", isActive |-> TRUE, currency |-> "USD", HostCollectiveId |-> NoId],
      [type |-> "COLLECTIVE", isActive |-> FALSE, currency |-> "USD", HostCollectiveId |-> NoId],
      [type |-> "USER", isActive |-> TRUE, currency |-> "USD", HostCollectiveId |-> NoId],
      [type |-> "USER", isActive |-> TRUE, currency |-> "USD", HostCollectiveId |-> NoId],
      [type |-> "EVENT", isActive |-> FALSE, currency |-> "USD", HostCollectiveId |-> NoId]>>

\* Users 1..3: a plain user, an admin of the host, a root user
BaseUsers ==
    <<[email |-> "ann@x", CollectiveId |-> 4],
      [email |-> "bob@x", CollectiveId |-> 6],
      [email |-> "root@x", CollectiveId |-> 7]>>

\* no remoteUser: the request is not authenticated
NoUser == 0

\* the ADMIN memberships of the users of BaseUsers: <<user, collective>>
BaseAdmins == {<<1, 4>>, <<2, 6>>, <<2, 3>>, <<3, 7>>}

\* Tiers 1..3: a paid ticket of the event with a capacity and a per-user cap,
\* a donor tier of the collective that sets no amount, a free ticket of the
\* event with a per-user cap (0: the field is not set)
Tiers ==
    <<[CollectiveId |-> 2, amount |-> 100, presets |-> FALSE, currency |-> "USD",
       maxQuantity |-> 3, maxQuantityPerUser |-> 2],
      [CollectiveId |-> 1, amount |-> 0, presets |-> FALSE, currency |-> NoStr,
       maxQuantity |-> 0, maxQuantityPerUser |-> 0],
      [CollectiveId |-> 2, amount |-> 0, presets |-> FALSE, currency |-> "USD",
       maxQuantity |-> 0, maxQuantityPerUser |-> 1]>>

\* PaymentMethods 1..2 by uuid: the card of user 1 and a prepaid balance of
\* the account of user 2
BasePms ==
    <<[uuid |-> "u-ann", service |-> "stripe", CollectiveId |-> 4],
      [uuid |-> "u-oc", service |-> "opencollective", CollectiveId |-> 6]>>

\* the id of the j-th row created in a table whose first rows are base
NewId(base, j) == Len(base) + j

\* loaders.collective.findById.load(id): the row, or NoRow
NoRow == [type |-> NoStr]
CollectiveById(id) ==
    IF id \in 1..Len(BaseCollectives) THEN BaseCollectives[id]
    ELSE IF id - Len(BaseCollectives) \in 1..Len(collectives)
         THEN collectives[id - Len(BaseCollectives)]
         ELSE NoRow

\* the id of the created collective with this website or githubHandle, or NoId
CollectiveIdByHandle(field, h) ==
    LET hit == {j \in 1..Len(collectives) : collectives[j][field] = h}
    IN  IF hit = {} THEN NoId
        ELSE NewId(BaseCollectives, CHOOSE j \in hit : TRUE)

\* a row of Collectives as the code creates it
NewCollective(type, website, githubHandle) ==
    [type |-> type, isActive |-> FALSE, currency |-> "USD", HostCollectiveId |-> NoId,
     website |-> website, githubHandle |-> githubHandle]

\* models.User.findByEmailOrPaypalEmail(email) finds a user
EmailTaken(email) ==
    \/ \E j \in 1..Len(BaseUsers) : BaseUsers[j].email = email
    \/ \E j \in 1..Len(users) : users[j].email = email

\* the Collective of user u (a base or a created user)
UserCollectiveId(u) ==
    IF u \in 1..Len(BaseUsers) THEN BaseUsers[u].CollectiveId
    ELSE users[u - Len(BaseUsers)].CollectiveId

\* remoteUser.isRoot()
IsRoot(u) == u = 3

\* remoteUser.isAdmin(CollectiveId)
IsAdmin(u, cid) == <<u, cid>> \in BaseAdmins

\* remoteUser.hasRole(possibleRoles, CollectiveId): the users of BaseUsers
\* hold no HOST or MEMBER role, so only ADMIN can match
HasRole(u, possibleRoles, cid) == "ADMIN" \in possibleRoles /\ <<u, cid>> \in BaseAdmins

\* collective.getHostCollectiveId()
HostCollectiveIdOf(cid) == CollectiveById(cid).HostCollectiveId

\* the id of the PaymentMethod with this uuid, or NoId
PmIdByUuid(uuid) ==
    LET hit == {j \in 1..Len(BasePms) : BasePms[j].uuid = uuid}
    IN  IF hit = {} THEN NoId ELSE CHOOSE j \in hit : TRUE

\* a request's paymentMethod: absent, or a reference by uuid, by a new token, or
\* the manual marker
NoPm == [given |-> FALSE, service |-> NoStr, uuid |-> NoStr, token |-> FALSE, type |-> NoStr]
PmRef(service, uuid, token, type) ==
    [given |-> TRUE, service |-> service, uuid |-> uuid, token |-> token, type |-> type]

\* a call that has thrown: what it threw, and what the caller gets
Thrown(call, error) == [call EXCEPT !.pc = "done", !.outcome = "error", !.error = error]
----------------------------------------------------------------------------
(* The capabilities of lib/payments and of the models *)

\* tier.checkAvailableQuantity(quantity): the quantity fits what is left of the
\* tier's capacity once the quantities of the tier's orders are taken off
RECURSIVE SoldQuantity(_, _, _)
SoldQuantity(ords, tierId, j) ==
    IF j = 0 THEN 0
    ELSE SoldQuantity(ords, tierId, j - 1)
         + (IF ords[j].TierId = tierId THEN ords[j].quantity ELSE 0)

CheckAvailableQuantity(tierId, quantity) ==
    \/ Tiers[tierId].maxQuantity = 0
    \/ SoldQuantity(orders, tierId, Len(orders)) + quantity <= Tiers[tierId].maxQuantity

\* a row of Subscriptions
NewSubscription(amount, currency, interval, isActive) ==
    [amount |-> amount, currency |-> currency, interval |-> interval,
     isActive |-> isActive, chargeRetryCount |-> 0, nextChargeDate |-> "scheduled"]

\* order.setPaymentMethod(paymentMethod): the id of the instrument the order is
\* bound to: the one found by uuid (NoId: none is found, the call throws), or a
\* new one made from the token and owned by the order's source account
SetPaymentMethodId(pm) ==
    IF pm.uuid # NoStr THEN PmIdByUuid(pm.uuid) ELSE NewId(BasePms, Len(pms) + 1)

PmsAfterSet(pm, fromCollectiveId) ==
    IF pm.uuid # NoStr THEN pms ELSE Append(pms, [CollectiveId |-> fromCollectiveId])

\* libPayments.executeOrder succeeds: the status the order is given
ChargedStatus(interval) == IF interval # NoStr THEN "ACTIVE" ELSE "PAID"

\* libPayments.executeOrder succeeds: the Orders table afterwards.  The order
\* is processed now; a recurring order without a Subscription gets the new one.
OrdersAfterCharge(ords, oid, interval) ==
    [ords EXCEPT
        ![oid].status = ChargedStatus(interval),
        ![oid].processedAt = TRUE,
        ![oid].processedWrites = @ + 1,
        ![oid].SubscriptionId =
            IF interval # NoStr /\ @ = NoId THEN Len(subs) + 1 ELSE @]

\* libPayments.executeOrder succeeds: the Subscriptions table afterwards.  A
\* recurring order's Subscription is active: the one it has, or a new one.
SubsAfterCharge(ords, oid, interval) ==
    IF interval = NoStr THEN subs
    ELSE IF ords[oid].SubscriptionId # NoId
         THEN [subs EXCEPT ![ords[oid].SubscriptionId].isActive = TRUE]
         ELSE Append(subs, NewSubscription(ords[oid].totalAmount, ords[oid].currency,
                                           interval, TRUE))

\* libPayments.executeOrder succeeds: the Transaction set it records
TransactionsAfterCharge(oid, user, hostFeePercent, platformFeePercent) ==
    Append(transactions,
           [OrderId |-> oid, user |-> user, hostFeePercent |-> hostFeePercent,
            platformFeePercent |-> platformFeePercent])

\* libPayments.executeOrder succeeds: the source account backs the destination
MembersAfterCharge(ords, oid) ==
    members \cup {<<ords[oid].FromCollectiveId, ords[oid].CollectiveId, "BACKER">>}
----------------------------------------------------------------------------
(* createOrder *)

\* checkOrdersLimit run from its first limit to its return or its throw
RECURSIVE LimRun(_, _, _)
LimRun(limits, j, st) ==
    IF j > Len(limits) THEN st
    ELSE LET l == limits[j]
             count == st.cache[l.key]
             reached == LimitReached(count, LimitValue(l))
             nxt == [cache |-> [st.cache EXCEPT ![l.key] = CounterAfter(count, reached)],
                     attempts |-> [st.attempts EXCEPT ![l.key] = @ + 1],
                     passed |-> [st.passed EXCEPT ![l.key] = IF reached THEN @ ELSE @ + 1],
                     ok |-> ~reached]
         IN  IF reached THEN nxt ELSE LimRun(limits, j + 1, nxt)

\* the address the requests come from
ReqIp == "ip1"

RecaptchaMissing_anyone(env, req) ==
    env \notin {"test", "circleci"} /\ ~req.recaptchaToken

\* checkRecaptcha throws: no token, and nobody is logged in
RecaptchaMissing(env, req) ==
    /\ env \notin {"test", "circleci"}
    /\ ~req.recaptchaToken
    /\ req.remoteUser = NoUser

\* the checks of createOrder before the destination is looked up: the error
\* thrown, or NoStr.  github: what the verification of the handle answers.
CheckRequest(req, github) ==
    IF req.pm.given /\ req.pm.service = "stripe" /\ req.pm.uuid # NoStr
       /\ req.remoteUser = NoUser
    THEN "login to use a payment method on file"
    ELSE IF req.collectiveId = NoId /\ req.website = NoStr /\ req.githubHandle = NoStr
    THEN "no collective id/website/githubHandle"
    ELSE IF req.collectiveId = NoId /\ req.githubHandle = NoStr
    THEN "id or GitHub handle is mandatory"
    ELSE IF req.githubHandle # NoStr /\ github # "ok"
    THEN "could not verify the GitHub handle"
    ELSE IF req.platformFeePercent # 0 /\ req.remoteUser = NoUser
    THEN "TypeError"
    ELSE IF req.platformFeePercent # 0 /\ ~IsRoot(req.remoteUser)
    THEN "only a root can change the platformFeePercent"
    ELSE NoStr

\* the destination of the request: by id, or found or created by its website,
\* or found or created by its githubHandle
DestinationId(req) ==
    IF req.collectiveId # NoId
    THEN (IF CollectiveById(req.collectiveId) = NoRow THEN NoId ELSE req.collectiveId)
    ELSE LET field == IF req.website # NoStr THEN "website" ELSE "githubHandle"
             found == CollectiveIdByHandle(field, req[field])
         IN  IF found # NoId THEN found
             ELSE NewId(BaseCollectives, Len(collectives) + 1)

\* findOrCreate creates the destination
DestinationCreated(req) ==
    /\ req.collectiveId = NoId
    /\ CollectiveIdByHandle(IF req.website # NoStr THEN "website" ELSE "githubHandle",
                            IF req.website # NoStr THEN req.website ELSE req.githubHandle)
         = NoId

HasPaymentRef_any(pm) == TRUE

\* the request names a payment method the order can be paid with
HasPaymentRef(pm) ==
    pm.given /\ (pm.uuid # NoStr \/ pm.token \/ pm.type = "manual")

PaymentRequired_noActive(totalAmount, tierId, isActive) ==
    totalAmount > 0 \/ (tierId # NoId /\ Tiers[tierId].amount > 0)

\* const paymentRequired = (order.totalAmount > 0 || (tier && tier.amount > 0))
\*                         && collective.isActive
PaymentRequired(totalAmount, tierId, isActive) ==
    (totalAmount > 0 \/ (tierId # NoId /\ Tiers[tierId].amount > 0)) /\ isActive

OverPerUserCap_off(tierId, quantity) == FALSE

\* tier && tier.maxQuantityPerUser > 0 && order.quantity > tier.maxQuantityPerUser
OverPerUserCap(tierId, quantity) ==
    /\ tierId # NoId
    /\ Tiers[tierId].maxQuantityPerUser > 0
    /\ quantity > Tiers[tierId].maxQuantityPerUser

\* the checks of createOrder on the destination col (id cid) and the tier: the
\* error thrown, or NoStr
CheckDestination(req, cid, col) ==
    IF cid = NoId
    THEN "no collective found"
    ELSE IF req.fromId # NoId /\ req.fromId = cid
    THEN "orders cannot be created for a collective by that same collective"
    ELSE IF req.hostFeePercent # 0 /\ req.remoteUser = NoUser
    THEN "TypeError"
    ELSE IF req.hostFeePercent # 0 /\ ~IsAdmin(req.remoteUser, col.HostCollectiveId)
    THEN "only an admin of the host can change the hostFeePercent"
    ELSE IF req.tier # NoId /\ req.tier \notin 1..Len(Tiers)
    THEN "no tier found"
    ELSE IF PaymentRequired(req.totalAmount, req.tier, col.isActive)
            /\ ~HasPaymentRef(req.pm)
    THEN "this order requires a payment method"
    ELSE IF OverPerUserCap(req.tier, req.quantity)
    THEN "you can buy up to maxQuantityPerUser per person"
    ELSE IF req.tier # NoId /\ ~CheckAvailableQuantity(req.tier, req.quantity)
    THEN "no more tickets left"
    ELSE NoStr

\* createOrder from its call to the end of the checks on the tier (lines 118-239)
CreateOrderBegin(c, req, github) ==
    LET off == LimiterOff(nodeEnv)
        lim == IF off
               THEN [cache |-> cache, attempts |-> attempts, passed |-> passed, ok |-> TRUE]
               ELSE LimRun(OrderLimits(req.collectiveId, req.fromId, req.email, ReqIp), 1,
                           [cache |-> cache, attempts |-> attempts, passed |-> passed,
                            ok |-> TRUE])
        e1 == CheckRequest(req, github)
        cid == DestinationId(req)
        created == e1 = NoStr /\ DestinationCreated(req)
        col == IF created
               THEN NewCollective("COLLECTIVE", req.website, req.githubHandle)
               ELSE CollectiveById(cid)
        e2 == IF e1 # NoStr THEN e1 ELSE CheckDestination(req, cid, col)
        error == IF ~lim.ok THEN "orders limit reached"
                 ELSE IF RecaptchaMissing(nodeEnv, req) THEN "Recaptcha token missing"
                 ELSE e2
        call == [op |-> "createOrder", pc |-> "resolve", req |-> req, cid |-> cid,
                 paymentRequired |-> FALSE, user |-> NoUser, userCol |-> NoId,
                 oid |-> NoId,
                 memProcessedAt |-> FALSE, effect |-> NoStr,
                 outcome |-> NoStr, error |-> NoStr,
                 rows0 |-> [orders |-> Len(orders), users |-> Len(users),
                            collectives |-> Len(collectives)]]
    IN  /\ calls[c] = Idle
        /\ cache' = lim.cache
        /\ attempts' = lim.attempts
        /\ passed' = lim.passed
        /\ collectives' =
              IF lim.ok /\ ~RecaptchaMissing(nodeEnv, req) /\ created
              THEN Append(collectives, col) ELSE collectives
        /\ calls' = [calls EXCEPT ![c] =
              IF error # NoStr THEN Thrown(call, error)
              ELSE [call EXCEPT
                      !.paymentRequired =
                          PaymentRequired(req.totalAmount, req.tier, col.isActive)]]
        /\ UNCHANGED <<envVars, expiries, orders, subs, users, pms, transactions,
                       members, activities, pendingErr>>

\* const currency = (tier && tier.currency) || collective.currency
OrderCurrency(tierId, col) ==
    IF tierId # NoId /\ Tiers[tierId].currency # NoStr
    THEN Tiers[tierId].currency ELSE col.currency

\* the amount of the order: the tier's amount times the quantity when the tier
\* sets an amount and has no presets, the request's totalAmount otherwise
OrderTotalAmount(tierId, quantity, totalAmount) ==
    IF tierId # NoId /\ Tiers[tierId].amount # 0 /\ ~Tiers[tierId].presets
    THEN Tiers[tierId].amount * quantity ELSE totalAmount

\* processedAt: paymentRequired || !collective.isActive ? null : new Date()
ProcessedAtOnCreate(paymentRequired, isActive) == ~(paymentRequired \/ ~isActive)

\* createOrder from the lookup of the user to Order.create (lines 241-372)
CreateOrderResolve(c) ==
    LET call == calls[c]
        req == call.req
        col == CollectiveById(call.cid)
        taken == req.email # NoStr /\ EmailTaken(req.email)
        userCreated == req.email # NoStr /\ ~taken
        userColId == NewId(BaseCollectives, Len(collectives) + 1)
        user == IF userCreated THEN NewId(BaseUsers, Len(users) + 1) ELSE req.remoteUser
        userCol == IF userCreated THEN userColId
                   ELSE IF user = NoUser THEN NoId ELSE UserCollectiveId(user)
        own == req.fromId = NoId /\ ~req.fromName
        possibleRoles ==
            {"ADMIN", "HOST"}
            \cup (IF CollectiveById(req.fromId).type = "ORGANIZATION"
                  THEN {"MEMBER"} ELSE {})
        e1 == IF taken THEN "an account already exists for this email address"
              ELSE IF own /\ user = NoUser THEN "TypeError"
              ELSE IF req.fromId # NoId /\ req.remoteUser = NoUser
              THEN "login to create an order for an existing open collective"
              ELSE IF req.fromId # NoId /\ CollectiveById(req.fromId) = NoRow
              THEN "from collective not found"
              ELSE IF req.fromId # NoId
                      /\ ~HasRole(req.remoteUser, possibleRoles, req.fromId)
                      /\ ~IsAdmin(req.remoteUser, HostCollectiveIdOf(call.cid))
              THEN "no sufficient permissions to create an order on behalf of"
              ELSE NoStr
        orgCreated == e1 = NoStr /\ req.fromId = NoId /\ req.fromName
        orgId == NewId(BaseCollectives, Len(collectives) + (IF userCreated THEN 2 ELSE 1))
        from == IF own THEN userCol ELSE IF req.fromId # NoId THEN req.fromId ELSE orgId
        currency == OrderCurrency(req.tier, col)
        e2 == IF e1 # NoStr THEN e1
              ELSE IF req.currency # NoStr /\ req.currency # currency
              THEN "invalid currency"
              ELSE IF req.remoteUser = NoUser /\ user = NoUser THEN "TypeError"
              ELSE NoStr
        quantity == IF req.quantity # 0 THEN req.quantity ELSE 1
        row == [status |-> "PENDING",
                processedAt |-> ProcessedAtOnCreate(call.paymentRequired, col.isActive),
                processedWrites |->
                    IF ProcessedAtOnCreate(call.paymentRequired, col.isActive)
                    THEN 1 ELSE 0,
                FromCollectiveId |-> from,
                CollectiveId |-> call.cid,
                TierId |-> req.tier,
                quantity |-> quantity,
                totalAmount |-> OrderTotalAmount(req.tier, quantity, req.totalAmount),
                currency |-> currency,
                interval |-> req.interval,
                SubscriptionId |-> NoId,
                PaymentMethodId |-> NoId,
                ReferralCollectiveId |->
                    IF req.referral # NoId /\ req.referral # from
                    THEN req.referral ELSE NoId]
    IN  /\ call.op = "createOrder"
        /\ call.pc = "resolve"
        /\ users' = IF userCreated
                    THEN Append(users, [email |-> req.email, CollectiveId |-> userColId])
                    ELSE users
        /\ collectives' =
              collectives
              \o (IF userCreated THEN <<NewCollective("USER", NoStr, NoStr)>> ELSE <<>>)
              \o (IF orgCreated THEN <<NewCollective("ORGANIZATION", NoStr, NoStr)>>
                  ELSE <<>>)
        /\ orders' = IF e2 = NoStr THEN Append(orders, row) ELSE orders
        /\ calls' = [calls EXCEPT ![c] =
              IF e2 # NoStr THEN Thrown(call, e2)
              ELSE [call EXCEPT !.pc = "pay", !.user = user, !.userCol = userCol,
                                !.oid = Len(orders) + 1,
                                !.memProcessedAt = row.processedAt]]
        /\ UNCHANGED <<cfgVars, limVars, subs, pms, transactions, members, activities,
                       pendingErr>>

\* the catch block of createOrder: the order, when it was created and is not
\* processed, is sent an update to ERROR that nobody awaits; the error is thrown
CaughtAfterCreate(c, error) ==
    /\ pendingErr' = IF ~calls[c].memProcessedAt THEN pendingErr \cup {calls[c].oid}
                     ELSE pendingErr
    /\ calls' = [calls EXCEPT ![c] = Thrown(calls[c], error)]

\* createOrder after Order.create: the payment, the pledge's dormant
\* Subscription or the free ticket (lines 374-413).  charge: what
\* libPayments.executeOrder answers; activity: what models.Activity.create of
\* TICKET_CONFIRMED answers.
CreateOrderPay(c, charge, activity) ==
    LET call == calls[c]
        req == call.req
        oid == call.oid
        col == CollectiveById(call.cid)
        manual == req.pm.type = "manual"
        pmId == IF manual THEN NoId ELSE SetPaymentMethodId(req.pm)
        bound == [orders EXCEPT ![oid].PaymentMethodId = pmId]
        payer == IF req.remoteUser # NoUser THEN req.remoteUser ELSE call.user
    IN  /\ call.op = "createOrder"
        /\ call.pc = "pay"
        /\ IF call.paymentRequired
           THEN IF ~manual /\ pmId = NoId
                THEN /\ CaughtAfterCreate(c, "payment method not found")
                     /\ UNCHANGED <<orders, subs, pms, transactions, members, activities>>
                ELSE IF charge # "ok"
                THEN /\ orders' = bound
                     /\ pms' = IF manual THEN pms
                               ELSE PmsAfterSet(req.pm, orders[oid].FromCollectiveId)
                     /\ CaughtAfterCreate(c, "charge failed")
                     /\ UNCHANGED <<subs, transactions, members, activities>>
                ELSE /\ orders' = OrdersAfterCharge(bound, oid, req.interval)
                     /\ subs' = SubsAfterCharge(bound, oid, req.interval)
                     /\ pms' = IF manual THEN pms
                               ELSE PmsAfterSet(req.pm, orders[oid].FromCollectiveId)
                     /\ transactions' =
                           TransactionsAfterCharge(oid, payer, req.hostFeePercent,
                                                   req.platformFeePercent)
                     /\ members' = MembersAfterCharge(bound, oid)
                     /\ calls' = [calls EXCEPT ![c].pc = "finish",
                                               ![c].memProcessedAt = TRUE]
                     /\ UNCHANGED <<activities, pendingErr>>
           ELSE IF req.interval # NoStr /\ col.type = "COLLECTIVE"
           THEN /\ subs' = Append(subs, NewSubscription(req.totalAmount, req.currency,
                                                       req.interval, FALSE))
                /\ orders' = [orders EXCEPT ![oid].SubscriptionId = Len(subs) + 1]
                /\ calls' = [calls EXCEPT ![c].pc = "finish"]
                /\ UNCHANGED <<pms, transactions, members, activities, pendingErr>>
           ELSE IF col.type = "EVENT"
           THEN /\ orders' = [orders EXCEPT ![oid].status = "PAID",
                                            ![oid].processedAt = TRUE,
                                            ![oid].processedWrites = @ + 1]
                /\ members' = members \cup {<<call.userCol, call.cid, "ATTENDEE">>}
                /\ activities' =
                      IF activity = "ok"
                      THEN Append(activities,
                                  [type |-> "TICKET_CONFIRMED", OrderId |-> oid])
                      ELSE activities
                /\ calls' = [calls EXCEPT ![c] =
                      IF activity = "ok"
                      THEN [call EXCEPT !.pc = "finish", !.memProcessedAt = TRUE]
                      ELSE Thrown([call EXCEPT !.memProcessedAt = TRUE,
                                               !.effect = "failed"],
                                  "activity failed")]
                /\ UNCHANGED <<subs, pms, transactions, pendingErr>>
           ELSE /\ calls' = [calls EXCEPT ![c].pc = "finish"]
                /\ UNCHANGED dbVars
        /\ UNCHANGED <<cfgVars, limVars, collectives, users>>

\* createOrder from the reload of the order to its return (lines 415-422).
\* grant: what collective.addUserWithRole of FUNDRAISER, which nobody awaits,
\* answers.
CreateOrderFinish(c, grant) ==
    LET call == calls[c]
        ref == orders[call.oid].ReferralCollectiveId
        granting == ref # NoId /\ ref # call.userCol
    IN  /\ call.op = "createOrder"
        /\ call.pc = "finish"
        /\ members' = IF granting /\ grant = "ok"
                      THEN members \cup {<<ref, call.cid, "FUNDRAISER">>}
                      ELSE members
        /\ calls' = [calls EXCEPT ![c].pc = "done", ![c].outcome = "ok",
                                  ![c].effect = IF granting /\ grant # "ok"
                                                THEN "failed" ELSE @]
        /\ UNCHANGED <<cfgVars, limVars, orders, subs, collectives, users, pms,
                       transactions, activities, pendingErr>>

\* the update to ERROR that the catch block of createOrder sent reaches the row
ErrorWriteLands(oid) ==
    /\ oid \in pendingErr
    /\ orders' = [orders EXCEPT ![oid].status = "ERROR"]
    /\ pendingErr' = pendingErr \ {oid}
    /\ UNCHANGED <<cfgVars, limVars, calls, subs, collectives, users, pms, transactions,
                   members, activities>>

\* the caller has the result or the error of the mutation
Return(c) ==
    /\ calls[c].op \notin {"idle", "checkOrdersLimit"}
    /\ calls[c].pc = "done"
    /\ calls' = [calls EXCEPT ![c] = Idle]
    /\ UNCHANGED <<cfgVars, limVars, dbVars>>
----------------------------------------------------------------------------
(* updateOrder *)

\* the fields of a call that every mutation has
NewCall(op, pc, req) ==
    [op |-> op, pc |-> pc, req |-> req, outcome |-> NoStr, error |-> NoStr]

\* const paymentRequired = order.totalAmount > 0 && existingOrder.collective.isActive
UpdatePaymentRequired(totalAmount, isActive) == totalAmount > 0 /\ isActive

\* updateOrder from its call to the check of the payment method (lines 433-465)
UpdateOrderBegin(c, req) ==
    LET call == NewCall("updateOrder", "pay", req)
        found == req.id \in 1..Len(orders)
        required == UpdatePaymentRequired(req.totalAmount,
                                          CollectiveById(orders[req.id].CollectiveId).isActive)
    IN  /\ calls[c] = Idle
        /\ calls' = [calls EXCEPT ![c] =
              IF req.remoteUser = NoUser THEN Thrown(call, "Unauthorized")
              ELSE IF ~found THEN Thrown(call, "NotFound")
              ELSE IF required /\ ~HasPaymentRef(req.pm)
              THEN Thrown(call, "this order requires a payment method")
              ELSE IF required THEN call
              ELSE [call EXCEPT !.pc = "done", !.outcome = "ok"]]
        /\ UNCHANGED <<envVars, limVars, dbVars>>

\* updateOrder when payment is required: setPaymentMethod, executeOrder with the
\* request's interval and fee overrides, reload (lines 467-478)
UpdateOrderPay(c, charge) ==
    LET call == calls[c]
        req == call.req
        oid == req.id
        manual == req.pm.type = "manual"
        pmId == IF manual THEN orders[oid].PaymentMethodId ELSE SetPaymentMethodId(req.pm)
        bound == [orders EXCEPT ![oid].PaymentMethodId = pmId]
        newPms == IF manual THEN pms
                  ELSE PmsAfterSet(req.pm, orders[oid].FromCollectiveId)
    IN  /\ call.op = "updateOrder"
        /\ call.pc = "pay"
        /\ IF ~manual /\ pmId = NoId
           THEN /\ calls' = [calls EXCEPT ![c] = Thrown(call, "payment method not found")]
                /\ UNCHANGED <<orders, subs, pms, transactions, members>>
           ELSE IF charge # "ok"
           THEN /\ orders' = bound
                /\ pms' = newPms
                /\ calls' = [calls EXCEPT ![c] = Thrown(call, "charge failed")]
                /\ UNCHANGED <<subs, transactions, members>>
           ELSE /\ orders' = OrdersAfterCharge(bound, oid, req.interval)
                /\ subs' = SubsAfterCharge(bound, oid, req.interval)
                /\ pms' = newPms
                /\ transactions' =
                      TransactionsAfterCharge(oid, req.remoteUser, req.hostFeePercent,
                                              req.platformFeePercent)
                /\ members' = MembersAfterCharge(bound, oid)
                /\ calls' = [calls EXCEPT ![c].pc = "done", ![c].outcome = "ok"]
        /\ UNCHANGED <<cfgVars, limVars, collectives, users, activities, pendingErr>>

----------------------------------------------------------------------------
(* markOrderAsPaid *)

MarkableStatus_any(st) == TRUE

\* order.status !== 'PENDING' throws
MarkableStatus(st) == st = "PENDING"

\* markOrderAsPaid from its call to the check of the host admin (lines 709-735)
MarkOrderAsPaidBegin(c, req) ==
    LET found == req.id \in 1..Len(orders)
        call == [op |-> "markOrderAsPaid", pc |-> "execute", req |-> req,
                 outcome |-> NoStr, error |-> NoStr,
                 rows0 |-> [order |-> IF found THEN orders[req.id] ELSE NoRow,
                            transactions |-> Len(transactions)]]
    IN  /\ calls[c] = Idle
        /\ calls' = [calls EXCEPT ![c] =
              IF req.remoteUser = NoUser THEN Thrown(call, "Unauthorized")
              ELSE IF ~found THEN Thrown(call, "NotFound")
              ELSE IF ~MarkableStatus(orders[req.id].status)
              THEN Thrown(call, "the order's status must be PENDING")
              ELSE IF ~IsAdmin(req.remoteUser, HostCollectiveIdOf(orders[req.id].CollectiveId))
              THEN Thrown(call, "Unauthorized")
              ELSE call]
        /\ UNCHANGED <<envVars, limVars, dbVars>>

\* await libPayments.executeOrder(remoteUser, order) with the manual payment
\* method (line 743)
MarkOrderAsPaidExecute(c, charge) ==
    LET call == calls[c]
        oid == call.req.id
    IN  /\ call.op = "markOrderAsPaid"
        /\ call.pc = "execute"
        /\ IF charge # "ok"
           THEN /\ calls' = [calls EXCEPT ![c] = Thrown(call, "charge failed")]
                /\ UNCHANGED <<orders, subs, transactions, members>>
           ELSE /\ orders' = OrdersAfterCharge(orders, oid, orders[oid].interval)
                /\ subs' = SubsAfterCharge(orders, oid, orders[oid].interval)
                /\ transactions' = TransactionsAfterCharge(oid, call.req.remoteUser, 0, 0)
                /\ members' = MembersAfterCharge(orders, oid)
                /\ calls' = [calls EXCEPT ![c].pc = "done", ![c].outcome = "ok"]
        /\ UNCHANGED <<cfgVars, limVars, collectives, users, pms, activities, pendingErr>>

----------------------------------------------------------------------------
(* cancelSubscription *)

\* cancelSubscription from its call to the check that the subscription is not
\* cancelled yet (lines 481-521)
CancelSubscriptionBegin(c, req) ==
    LET found == req.id \in 1..Len(orders)
        order == orders[req.id]
        hasSub == found /\ order.SubscriptionId # NoId
        call == [op |-> "cancelSubscription", pc |-> "write", req |-> req,
                 effect |-> NoStr, outcome |-> NoStr, error |-> NoStr,
                 rows0 |-> [status |-> IF found THEN order.status ELSE NoStr,
                            isActive |-> hasSub /\ subs[order.SubscriptionId].isActive]]
    IN  /\ calls[c] = Idle
        /\ calls' = [calls EXCEPT ![c] =
              IF req.remoteUser = NoUser THEN Thrown(call, "Unauthorized")
              ELSE IF ~found THEN Thrown(call, "Subscription not found")
              ELSE IF ~IsAdmin(req.remoteUser, order.FromCollectiveId)
              THEN Thrown(call, "Unauthorized")
              ELSE IF order.SubscriptionId = NoId THEN Thrown(call, "TypeError")
              ELSE IF ~subs[order.SubscriptionId].isActive /\ order.status = "CANCELLED"
              THEN Thrown(call, "Subscription already canceled")
              ELSE call]
        /\ UNCHANGED <<envVars, limVars, dbVars>>

\* the two writes of cancelSubscription
CancelWrites == {"order", "subscription"}

\* Promise.all([order.update({ status: CANCELLED }), order.Subscription.deactivate()]):
\* two writes that are sent side by side, outside any transaction.  landed: the
\* writes that the database applies; when one fails, Promise.all rejects and
\* the call throws.
CancelSubscriptionWrite(c, landed) ==
    LET oid == calls[c].req.id
    IN  /\ calls[c].op = "cancelSubscription"
        /\ calls[c].pc = "write"
        /\ orders' = IF "order" \in landed
                     THEN [orders EXCEPT ![oid].status = "CANCELLED"] ELSE orders
        /\ subs' = IF "subscription" \in landed
                   THEN [subs EXCEPT ![orders[oid].SubscriptionId].isActive = FALSE]
                   ELSE subs
        /\ calls' = [calls EXCEPT ![c] =
              IF landed = CancelWrites THEN [calls[c] EXCEPT !.pc = "activity"]
              ELSE Thrown(calls[c], "write failed")]
        /\ UNCHANGED <<cfgVars, limVars, collectives, users, pms, transactions, members,
                       activities, pendingErr>>

\* models.Activity.create of SUBSCRIPTION_CANCELED, then the order is read
\* again.  activity: what models.Activity.create answers; when it fails the
\* promise chain rejects.
CancelSubscriptionActivity(c, activity) ==
    /\ calls[c].op = "cancelSubscription"
    /\ calls[c].pc = "activity"
    /\ activities' =
          IF activity = "ok"
          THEN Append(activities,
                      [type |-> "SUBSCRIPTION_CANCELED", OrderId |-> calls[c].req.id])
          ELSE activities
    /\ calls' = [calls EXCEPT ![c] =
          IF activity = "ok" THEN [calls[c] EXCEPT !.pc = "done", !.outcome = "ok"]
          ELSE Thrown([calls[c] EXCEPT !.effect = "failed"], "activity failed")]
    /\ UNCHANGED <<cfgVars, limVars, orders, subs, collectives, users, pms, transactions,
                   members, pendingErr>>

----------------------------------------------------------------------------
(* updateSubscription *)

\* getChargeRetryCount('updated', order) and the nextChargeDate of
\* getNextChargeAndPeriodStartDates('updated', order)
UpdatedRetryCount == 0
UpdatedNextChargeDate == "now"

SubscriptionActive_any(sub) == TRUE

\* order.Subscription.isActive
SubscriptionActive(sub) == sub.isActive

\* updateSubscription from its call to the check that the subscription is
\* active (lines 542-570); order and sub are the instances the call holds
UpdateSubscriptionBegin(c, req) ==
    LET found == req.id \in 1..Len(orders)
        order == orders[req.id]
        sid == order.SubscriptionId
        call == [op |-> "updateSubscription", pc |-> "pm", req |-> req,
                 order |-> order,
                 sub |-> IF sid # NoId THEN subs[sid] ELSE NoRow,
                 newSid |-> NoId, newOid |-> NoId,
                 rows0 |-> [orders |-> Len(orders), subs |-> Len(subs),
                            status |-> IF found THEN order.status ELSE NoStr,
                            isActive |-> sid # NoId /\ subs[sid].isActive,
                            order |-> IF found THEN order ELSE NoRow,
                            sub |-> IF sid # NoId THEN subs[sid] ELSE NoRow],
                 outcome |-> NoStr, error |-> NoStr]
    IN  /\ calls[c] = Idle
        /\ calls' = [calls EXCEPT ![c] =
              IF req.remoteUser = NoUser THEN Thrown(call, "Unauthorized")
              ELSE IF ~found THEN Thrown(call, "Subscription not found")
              ELSE IF ~IsAdmin(req.remoteUser, order.FromCollectiveId)
              THEN Thrown(call, "Unauthorized")
              ELSE IF sid = NoId THEN Thrown(call, "TypeError")
              ELSE IF ~SubscriptionActive(subs[sid])
              THEN Thrown(call, "Subscription must be active to be updated")
              ELSE IF req.pm.given THEN call
              ELSE IF req.hasAmount THEN [call EXCEPT !.pc = "amount"]
              ELSE [call EXCEPT !.pc = "done", !.outcome = "ok"]]
        /\ UNCHANGED <<envVars, limVars, dbVars>>

PastDue_always(sub) == TRUE

\* determine if this order was pastdue: order.Subscription.chargeRetryCount > 0
PastDue(sub) == sub.chargeRetryCount > 0

\* the payment method part of updateSubscription (lines 572-606): the method is
\* found by its uuid or created for the order's source account, a past due
\* subscription is rescheduled, the order is bound to the method
UpdateSubscriptionPm(c) ==
    LET call == calls[c]
        req == call.req
        oid == req.id
        sid == call.order.SubscriptionId
        byUuid == req.pm.uuid # NoStr
        pmId == IF byUuid THEN PmIdByUuid(req.pm.uuid) ELSE NewId(BasePms, Len(pms) + 1)
        pastDue == PastDue(call.sub)
        sub == IF pastDue
               THEN [call.sub EXCEPT !.nextChargeDate = UpdatedNextChargeDate,
                                     !.chargeRetryCount = UpdatedRetryCount]
               ELSE call.sub
    IN  /\ call.op = "updateSubscription"
        /\ call.pc = "pm"
        /\ IF byUuid /\ pmId = NoId
           THEN /\ calls' = [calls EXCEPT ![c] =
                                Thrown(call, "Payment method not found with this uuid")]
                /\ UNCHANGED <<orders, subs, pms>>
           ELSE /\ pms' = IF byUuid THEN pms
                          ELSE Append(pms, [CollectiveId |-> call.order.FromCollectiveId])
                /\ subs' = IF pastDue
                           THEN [subs EXCEPT
                                   ![sid].nextChargeDate = UpdatedNextChargeDate,
                                   ![sid].chargeRetryCount = UpdatedRetryCount]
                           ELSE subs
                /\ orders' = [orders EXCEPT ![oid].PaymentMethodId = pmId]
                /\ calls' = [calls EXCEPT
                               ![c] = [call EXCEPT
                                         !.pc = IF req.hasAmount THEN "amount" ELSE "done",
                                         !.outcome = IF req.hasAmount THEN NoStr ELSE "ok",
                                         !.sub = sub,
                                         !.order.PaymentMethodId = pmId]]
        /\ UNCHANGED <<cfgVars, limVars, collectives, users, transactions, members,
                       activities, pendingErr>>

SameAmount_never(amount, current) == FALSE

\* amount == order.Subscription.amount
SameAmount(amount, current) == amount = current

\* amount < 100 || amount % 100 !== 0
InvalidAmount(amount) == amount < 100 \/ amount % 100 # 0

\* the checks of the new amount, then order.Subscription.deactivate()
\* (lines 608-616)
UpdateSubscriptionAmount(c) ==
    LET call == calls[c]
        sid == call.order.SubscriptionId
    IN  /\ call.op = "updateSubscription"
        /\ call.pc = "amount"
        /\ IF SameAmount(call.req.amount, call.sub.amount)
           THEN /\ calls' = [calls EXCEPT ![c] = Thrown(call, "Same amount")]
                /\ UNCHANGED subs
           ELSE IF InvalidAmount(call.req.amount)
           THEN /\ calls' = [calls EXCEPT ![c] = Thrown(call, "Invalid amount")]
                /\ UNCHANGED subs
           ELSE /\ subs' = [subs EXCEPT ![sid].isActive = FALSE]
                /\ calls' = [calls EXCEPT ![c].pc = "save", ![c].sub.isActive = FALSE]
        /\ UNCHANGED <<cfgVars, limVars, orders, collectives, users, pms, transactions,
                       members, activities, pendingErr>>

\* order.status = status.CANCELLED; await order.save() (lines 617-618)
UpdateSubscriptionSave(c) ==
    /\ calls[c].op = "updateSubscription"
    /\ calls[c].pc = "save"
    /\ orders' = [orders EXCEPT ![calls[c].req.id].status = "CANCELLED"]
    /\ calls' = [calls EXCEPT ![c].pc = "newSub", ![c].order.status = "CANCELLED"]
    /\ UNCHANGED <<cfgVars, limVars, subs, collectives, users, pms, transactions,
                   members, activities, pendingErr>>

NewSubscriptionValues_keep(sub, amount) == [sub EXCEPT !.isActive = TRUE]

\* Object.assign(omit(order.Subscription.dataValues, ['id', 'deactivatedAt']),
\*               { amount: amount, ..., isActive: true })
NewSubscriptionValues(sub, amount) == [sub EXCEPT !.amount = amount, !.isActive = TRUE]

\* the new Subscription: the values of the old one with the new amount, active
\* (lines 620-627)
UpdateSubscriptionNewSub(c) ==
    /\ calls[c].op = "updateSubscription"
    /\ calls[c].pc = "newSub"
    /\ subs' = Append(subs, NewSubscriptionValues(calls[c].sub, calls[c].req.amount))
    /\ calls' = [calls EXCEPT ![c].pc = "newOrder", ![c].newSid = Len(subs) + 1]
    /\ UNCHANGED <<cfgVars, limVars, orders, collectives, users, pms, transactions,
                   members, activities, pendingErr>>

\* the new Order: the values of the old one but its id and status, with the new
\* amount, the new Subscription and the status PENDING (lines 628-638)
UpdateSubscriptionNewOrder(c) ==
    LET call == calls[c]
        row == [call.order EXCEPT !.totalAmount = call.req.amount,
                                  !.SubscriptionId = call.newSid,
                                  !.status = "PENDING",
                                  !.processedWrites = IF call.order.processedAt
                                                      THEN 1 ELSE 0]
    IN  /\ call.op = "updateSubscription"
        /\ call.pc = "newOrder"
        /\ orders' = Append(orders, row)
        /\ calls' = [calls EXCEPT ![c].pc = "done", ![c].outcome = "ok",
                                  ![c].newOid = Len(orders) + 1]
        /\ UNCHANGED <<cfgVars, limVars, subs, collectives, users, pms, transactions,
                       members, activities, pendingErr>>

\* the writes of the amount change, in the order the call awaits them
\* (lines 616, 618, 627, 635), by the position of the call before each
AmountWrites == {"amount", "save", "newSub", "newOrder"}

\* one of these writes is rejected by the database: the await throws out of
\* updateSubscription, which has no try and no transaction around them, so the
\* writes that landed before it stay
UpdateSubscriptionWriteFails(c) ==
    LET call == calls[c]
    IN  /\ call.op = "updateSubscription"
        /\ call.pc \in AmountWrites
        /\ call.pc = "amount"
              => /\ ~SameAmount(call.req.amount, call.sub.amount)
                 /\ ~InvalidAmount(call.req.amount)
        /\ calls' = [calls EXCEPT ![c] = Thrown(call, "write failed")]
        /\ UNCHANGED <<cfgVars, limVars, dbVars>>

----------------------------------------------------------------------------
(* The requests and the specifications *)

\* a createOrder request by user 1: 100 to collective 1, paid with a new token
DefaultOrder ==
    [remoteUser |-> 1, recaptchaToken |-> TRUE,
     pm |-> PmRef("stripe", NoStr, TRUE, NoStr),
     collectiveId |-> 1, website |-> NoStr, githubHandle |-> NoStr,
     platformFeePercent |-> 0, hostFeePercent |-> 0,
     fromId |-> NoId, fromName |-> FALSE,
     tier |-> NoId, quantity |-> 1, totalAmount |-> 100,
     email |-> NoStr, currency |-> NoStr, interval |-> NoStr, referral |-> NoId]

\* the payment methods a request may name
PaymentRefs ==
    {NoPm,
     PmRef("stripe", "u-ann", FALSE, NoStr),
     PmRef("opencollective", "u-oc", FALSE, NoStr),
     PmRef("stripe", "u-unknown", FALSE, NoStr),
     PmRef("stripe", NoStr, TRUE, NoStr),
     PmRef("opencollective", NoStr, FALSE, "manual")}

\* requests that vary the tier, the quantity, the amount and the payment method
TierOrders ==
    {[DefaultOrder EXCEPT !.pm = pm, !.collectiveId = col, !.tier = t, !.quantity = q,
                          !.totalAmount = a, !.interval = i] :
        pm \in {NoPm, PmRef("stripe", NoStr, TRUE, NoStr),
                PmRef("opencollective", NoStr, FALSE, "manual")},
        col \in {1, 2, 5, 8}, t \in {NoId, 1, 2, 3, 99}, q \in {0, 1, 3},
        a \in {0, 100}, i \in {NoStr, "month"}}

\* requests that vary the requester, the payment method and the fee overrides
AuthOrders ==
    {[DefaultOrder EXCEPT !.remoteUser = u, !.pm = pm, !.platformFeePercent = pf,
                          !.hostFeePercent = hf, !.email = e] :
        u \in {NoUser, 1, 2, 3}, pm \in PaymentRefs, pf \in {0, 5}, hf \in {0, 5},
        e \in {NoStr, "new@x"}}

\* requests that vary the destination, the source account, the email and the
\* currency
SourceOrders ==
    {[DefaultOrder EXCEPT !.remoteUser = u, !.collectiveId = d[1], !.website = d[2],
                          !.githubHandle = d[3], !.fromId = f[1], !.fromName = f[2],
                          !.email = e, !.currency = cur, !.referral = r] :
        u \in {NoUser, 1, 2},
        d \in {<<1, NoStr, NoStr>>, <<99, NoStr, NoStr>>, <<NoId, "w.org", NoStr>>,
               <<NoId, "w.org", "gh/repo">>, <<NoId, NoStr, "gh/repo">>,
               <<NoId, NoStr, NoStr>>},
        f \in {<<NoId, FALSE>>, <<1, FALSE>>, <<4, FALSE>>, <<3, FALSE>>, <<NoId, TRUE>>},
        e \in {NoStr, "new@x", "ann@x"}, cur \in {NoStr, "EUR"},
        r \in {NoId, 6}}

\* requests to the account of user 1, by user 1 and by user 2, that name this
\* account as the source or name no source
OwnAccountOrders ==
    {[DefaultOrder EXCEPT !.remoteUser = u, !.collectiveId = 4, !.fromId = f] :
        u \in {1, 2}, f \in {NoId, 4}}

CreateOrders == TierOrders \cup AuthOrders \cup SourceOrders \cup OwnAccountOrders

\* the tables are empty and the limiter is off (NODE_ENV is test)
InitOrders ==
    /\ nodeEnv = "test"
    /\ ordersLimits = [n \in LimitNames |-> 2]
    /\ cache = [k \in LimKeys |-> 0]
    /\ attempts = [k \in LimKeys |-> 0]
    /\ passed = [k \in LimKeys |-> 0]
    /\ expiries = 0
    /\ started = 0
    /\ calls = [c \in Slots |-> Idle]
    /\ EmptyDb

\* one more mutation is called
Called(max) == started < max /\ started' = started + 1

\* createOrder is called
CreateOrderStart(c, reqs) ==
    /\ Called(MaxCreateCalls)
    /\ \E req \in reqs, github \in {"ok", "failed"} : CreateOrderBegin(c, req, github)

\* createOrder alone, one call after the other
NextCreate ==
    \/ CreateOrderStart(SeqSlot, CreateOrders)
    \/ CreateOrderResolve(SeqSlot)
    \/ \E charge \in {"ok", "failed"} : CreateOrderPay(SeqSlot, charge, "ok")
    \/ CreateOrderFinish(SeqSlot, "ok")
    \/ \E oid \in pendingErr : ErrorWriteLands(oid)
    \/ Return(SeqSlot)

SpecCreate == InitOrders /\ [][NextCreate]_vars

----------------------------------------------------------------------------
(* The life of the orders *)

\* createOrder requests by user 1: a one-time and a monthly donation to the
\* collective, a monthly pledge to the collective that is not active, a
\* donation of nothing, a free ticket of the event
LifeOrders ==
    {DefaultOrder,
     [DefaultOrder EXCEPT !.interval = "month"],
     [DefaultOrder EXCEPT !.collectiveId = 5, !.interval = "month", !.pm = NoPm,
                          !.currency = "USD"],
     [DefaultOrder EXCEPT !.totalAmount = 0, !.pm = NoPm],
     [DefaultOrder EXCEPT !.collectiveId = 2, !.tier = 3, !.totalAmount = 0, !.pm = NoPm]}

\* the orders a request can name: the rows of the table
OrderIds == 1..Len(orders)

ManualPm == PmRef("opencollective", NoStr, FALSE, "manual")

\* no fee override, and the overrides of the host fee and of the platform fee:
\* <<hostFeePercent, platformFeePercent>>
NoFees == <<0, 0>>
FeeOverrides == {NoFees, <<5, 0>>, <<0, 5>>}

\* updateOrder requests by user 1
UpdateOrders(pmRefs, fees) ==
    {[remoteUser |-> 1, id |-> id, totalAmount |-> a, pm |-> pm, interval |-> i,
      hostFeePercent |-> f[1], platformFeePercent |-> f[2]] :
        id \in OrderIds, a \in {0, 100}, pm \in pmRefs, i \in {NoStr, "month"},
        f \in fees}

\* markOrderAsPaid and cancelSubscription requests
OrderRequests(requesters) ==
    {[remoteUser |-> u, id |-> id] : u \in requesters, id \in OrderIds}

\* updateSubscription requests by user 1; hasAmount: args.amount is defined
UpdateSubscriptions(pmRefs, newAmounts) ==
    {[remoteUser |-> 1, id |-> id, pm |-> pm, hasAmount |-> FALSE, amount |-> 0] :
        id \in OrderIds, pm \in pmRefs}
    \cup {[remoteUser |-> 1, id |-> id, pm |-> pm, hasAmount |-> TRUE, amount |-> a] :
            id \in OrderIds, pm \in pmRefs, a \in newAmounts}

\* the calls of the mutations
CreateOrderCall(c, reqs) ==
    Called(MaxCalls) /\ \E req \in reqs : CreateOrderBegin(c, req, "ok")

UpdateOrderCall(c, pmRefs, fees) ==
    Called(MaxCalls) /\ \E req \in UpdateOrders(pmRefs, fees) : UpdateOrderBegin(c, req)

MarkOrderAsPaidCall(c, requesters) ==
    Called(MaxCalls) /\ \E req \in OrderRequests(requesters) : MarkOrderAsPaidBegin(c, req)

CancelSubscriptionCall(c, requesters) ==
    Called(MaxCalls)
    /\ \E req \in OrderRequests(requesters) : CancelSubscriptionBegin(c, req)

UpdateSubscriptionCall(c, pmRefs, newAmounts) ==
    Called(MaxCalls)
    /\ \E req \in UpdateSubscriptions(pmRefs, newAmounts) : UpdateSubscriptionBegin(c, req)

\* the steps of the mutations of slot c
Steps(c) ==
    \/ CreateOrderResolve(c)
    \/ \E charge \in {"ok", "failed"} : CreateOrderPay(c, charge, "ok")
    \/ CreateOrderFinish(c, "ok")
    \/ \E charge \in {"ok", "failed"} : UpdateOrderPay(c, charge)
    \/ \E charge \in {"ok", "failed"} : MarkOrderAsPaidExecute(c, charge)
    \/ \E landed \in SUBSET CancelWrites : CancelSubscriptionWrite(c, landed)
    \/ CancelSubscriptionActivity(c, "ok")
    \/ UpdateSubscriptionPm(c)
    \/ UpdateSubscriptionAmount(c)
    \/ UpdateSubscriptionSave(c)
    \/ UpdateSubscriptionNewSub(c)
    \/ UpdateSubscriptionNewOrder(c)
    \/ Return(c)

\* the mutations are called concurrently, on the rows the tables hold
Next ==
    \/ \E c \in Slots :
          \/ CreateOrderCall(c, LifeOrders)
          \/ UpdateOrderCall(c, {NoPm, ManualPm}, {NoFees})
          \/ MarkOrderAsPaidCall(c, {1, 2})
          \/ CancelSubscriptionCall(c, {1})
          \/ UpdateSubscriptionCall(c, {NoPm, PmRef("stripe", "u-ann", FALSE, NoStr)}, {100, 200})
    \/ \E c \in Slots : Steps(c)
    \/ \E oid \in pendingErr : ErrorWriteLands(oid)

Spec == InitOrders /\ [][Next]_vars

\* the payment methods an updateSubscription request may name
SubscriptionPmRefs ==
    {NoPm, PmRef("stripe", "u-ann", FALSE, NoStr), PmRef("stripe", "u-unknown", FALSE, NoStr),
     PmRef("stripe", NoStr, TRUE, NoStr)}

\* the mutations are called one after the other, each once the writes of the
\* ones before it have landed, with more kinds of requests
NextSeq ==
    \/ /\ pendingErr = {}
       /\ \/ CreateOrderCall(SeqSlot, LifeOrders)
          \/ UpdateOrderCall(SeqSlot, PaymentRefs, FeeOverrides)
          \/ MarkOrderAsPaidCall(SeqSlot, {NoUser, 1, 2})
          \/ CancelSubscriptionCall(SeqSlot, {NoUser, 1, 2})
          \/ UpdateSubscriptionCall(SeqSlot, SubscriptionPmRefs,
                                    {-100, 0, 50, 100, 150, 200})
    \/ Steps(SeqSlot)
    \/ \E oid \in pendingErr : ErrorWriteLands(oid)

SpecSeq == InitOrders /\ [][NextSeq]_vars

----------------------------------------------------------------------------
(* The gate of createOrder: the limiter and the recaptcha *)

\* createOrder requests to collective 1 with and without a recaptcha token, by
\* user 1 and by nobody logged in, with and without the email of a new user
GateOrders ==
    {[DefaultOrder EXCEPT !.remoteUser = u, !.recaptchaToken = t, !.email = e] :
        u \in {NoUser, 1}, t \in BOOLEAN, e \in LimEmails}

\* the tables are empty; NODE_ENV is production, test or circleci
InitGate ==
    /\ nodeEnv \in {"production", "test", "circleci"}
    /\ ordersLimits = [n \in LimitNames |-> 2]
    /\ cache = [k \in LimKeys |-> 0]
    /\ attempts = [k \in LimKeys |-> 0]
    /\ passed = [k \in LimKeys |-> 0]
    /\ expiries = 0
    /\ started = 0
    /\ calls = [c \in Slots |-> Idle]
    /\ EmptyDb

\* createOrder is called again and again, one call after the other
NextGate ==
    \/ pendingErr = {} /\ CreateOrderCall(SeqSlot, GateOrders)
    \/ CreateOrderResolve(SeqSlot)
    \/ \E charge \in {"ok", "failed"} : CreateOrderPay(SeqSlot, charge, "ok")
    \/ CreateOrderFinish(SeqSlot, "ok")
    \/ \E oid \in pendingErr : ErrorWriteLands(oid)
    \/ Return(SeqSlot)

SpecGate == InitGate /\ [][NextGate]_vars

----------------------------------------------------------------------------
(* The tickets of a tier with a capacity *)

\* createOrder requests by users 1 and 2 for one or two tickets of tier 1 of
\* the event, paid with a new token
TicketOrders ==
    {[DefaultOrder EXCEPT !.remoteUser = u, !.collectiveId = 2, !.tier = 1,
                          !.quantity = q] :
        u \in {1, 2}, q \in {1, 2}}

\* createOrder is called concurrently for the tickets
NextTickets ==
    \/ \E c \in Slots :
          \/ CreateOrderCall(c, TicketOrders)
          \/ CreateOrderResolve(c)
          \/ \E charge \in {"ok", "failed"} : CreateOrderPay(c, charge, "ok")
          \/ CreateOrderFinish(c, "ok")
          \/ Return(c)
    \/ \E oid \in pendingErr : ErrorWriteLands(oid)

SpecTickets == InitOrders /\ [][NextTickets]_vars

----------------------------------------------------------------------------
(* The side effects that may fail *)

\* createOrder requests by user 1, with and without a referral: a free ticket
\* of the event and a monthly donation to the collective
EffectOrders ==
    {[DefaultOrder EXCEPT !.collectiveId = 2, !.tier = 3, !.totalAmount = 0,
                          !.pm = NoPm, !.referral = r] : r \in {NoId, 6}}
    \cup {[DefaultOrder EXCEPT !.interval = "month", !.referral = r] : r \in {NoId, 6}}

\* createOrder and cancelSubscription are called one after the other; the
\* creation of an activity and the grant of the FUNDRAISER role may fail
NextEffects ==
    \/ /\ pendingErr = {}
       /\ \/ CreateOrderCall(SeqSlot, EffectOrders)
          \/ CancelSubscriptionCall(SeqSlot, {1})
    \/ CreateOrderResolve(SeqSlot)
    \/ \E charge \in {"ok", "failed"}, activity \in {"ok", "failed"} :
          CreateOrderPay(SeqSlot, charge, activity)
    \/ \E grant \in {"ok", "failed"} : CreateOrderFinish(SeqSlot, grant)
    \/ \E landed \in SUBSET CancelWrites : CancelSubscriptionWrite(SeqSlot, landed)
    \/ \E activity \in {"ok", "failed"} : CancelSubscriptionActivity(SeqSlot, activity)
    \/ \E oid \in pendingErr : ErrorWriteLands(oid)
    \/ Return(SeqSlot)

SpecEffects == InitOrders /\ [][NextEffects]_vars

----------------------------------------------------------------------------
(* The subscriptions that are past due *)

\* the charge retries a subscription may have behind it
MaxRetries == 1

\* the renewal of subscription sid has failed: the driver of the renewals
\* counts the retry and schedules the next one
RetryRecorded(sid) ==
    /\ calls[SeqSlot] = Idle
    /\ subs[sid].isActive
    /\ subs[sid].chargeRetryCount < MaxRetries
    /\ subs' = [subs EXCEPT ![sid].chargeRetryCount = @ + 1,
                            ![sid].nextChargeDate = "retry"]
    /\ UNCHANGED <<cfgVars, limVars, calls, orders, collectives, users, pms,
                   transactions, members, activities, pendingErr>>

\* monthly donations are created, their renewals may fail, and
\* updateSubscription and cancelSubscription are called, one call after the
\* other
NextPastDue ==
    \/ /\ pendingErr = {}
       /\ \/ CreateOrderCall(SeqSlot, {[DefaultOrder EXCEPT !.interval = "month"]})
          \/ UpdateSubscriptionCall(SeqSlot, PaymentRefs \ {ManualPm}, {0, 100, 200})
          \/ CancelSubscriptionCall(SeqSlot, {1})
    \/ \E landed \in SUBSET CancelWrites : CancelSubscriptionWrite(SeqSlot, landed)
    \/ CancelSubscriptionActivity(SeqSlot, "ok")
    \/ \E sid \in 1..Len(subs) : RetryRecorded(sid)
    \/ CreateOrderResolve(SeqSlot)
    \/ \E charge \in {"ok", "failed"} : CreateOrderPay(SeqSlot, charge, "ok")
    \/ CreateOrderFinish(SeqSlot, "ok")
    \/ UpdateSubscriptionPm(SeqSlot)
    \/ UpdateSubscriptionAmount(SeqSlot)
    \/ UpdateSubscriptionSave(SeqSlot)
    \/ UpdateSubscriptionNewSub(SeqSlot)
    \/ UpdateSubscriptionNewOrder(SeqSlot)
    \/ \E oid \in pendingErr : ErrorWriteLands(oid)
    \/ Return(SeqSlot)

SpecPastDue == InitOrders /\ [][NextPastDue]_vars

\* a monthly donation is created, then updateSubscription calls on it are
\* interleaved
NextAmounts ==
    \/ /\ \A c \in Slots : calls[c] = Idle
       /\ pendingErr = {}
       /\ CreateOrderCall(SeqSlot, {[DefaultOrder EXCEPT !.interval = "month"]})
    \/ CreateOrderResolve(SeqSlot)
    \/ \E charge \in {"ok", "failed"} : CreateOrderPay(SeqSlot, charge, "ok")
    \/ CreateOrderFinish(SeqSlot, "ok")
    \/ \E c \in Slots :
          /\ calls[SeqSlot].op # "createOrder"
          /\ pendingErr = {}
          /\ UpdateSubscriptionCall(c, {NoPm, PmRef("stripe", "u-ann", FALSE, NoStr)},
                                    {100, 200, 300})
    \/ \E c \in Slots :
          \/ UpdateSubscriptionPm(c)
          \/ UpdateSubscriptionAmount(c)
          \/ UpdateSubscriptionSave(c)
          \/ UpdateSubscriptionNewSub(c)
          \/ UpdateSubscriptionNewOrder(c)
          \/ Return(c)
    \/ \E oid \in pendingErr : ErrorWriteLands(oid)

SpecAmounts == InitOrders /\ [][NextAmounts]_vars

\* a monthly donation is created, then updateSubscription is called on it, one
\* call after the other, and each write of the amount change lands or fails
NextWrites ==
    \/ /\ pendingErr = {}
       /\ \/ CreateOrderCall(SeqSlot, {[DefaultOrder EXCEPT !.interval = "month"]})
          \/ UpdateSubscriptionCall(SeqSlot, {NoPm, PmRef("stripe", "u-ann", FALSE, NoStr)},
                                    {100, 200, 300})
    \/ CreateOrderResolve(SeqSlot)
    \/ \E charge \in {"ok", "failed"} : CreateOrderPay(SeqSlot, charge, "ok")
    \/ CreateOrderFinish(SeqSlot, "ok")
    \/ UpdateSubscriptionPm(SeqSlot)
    \/ UpdateSubscriptionAmount(SeqSlot)
    \/ UpdateSubscriptionSave(SeqSlot)
    \/ UpdateSubscriptionNewSub(SeqSlot)
    \/ UpdateSubscriptionNewOrder(SeqSlot)
    \/ UpdateSubscriptionWriteFails(SeqSlot)
    \/ \E oid \in pendingErr : ErrorWriteLands(oid)
    \/ Return(SeqSlot)

SpecWrites == InitOrders /\ [][NextWrites]_vars

----------------------------------------------------------------------------
(* The claims *)

\* C5: for every key with threshold N, of the checks made on the key by calls
\* that follow one another inside one window, the first N pass the key and
\* the (N+1)-th and every later one is rejected; and once the key has been
\* checked in the window its counter is not zero.
C5_FirstNPassThenRejected ==
    \A k \in LimKeys :
        /\ passed[k] = Min(attempts[k], ordersLimits[KeyLimitName(k)])
        /\ attempts[k] > 0 => cache[k] > 0

\* a key has been checked N+2 times in one window: N passed, two were rejected
C5_Witness ==
    \E k \in LimKeys :
        /\ attempts[k] = ordersLimits[KeyLimitName(k)] + 2
        /\ passed[k] = ordersLimits[KeyLimitName(k)]

\* a finished checkOrdersLimit call that built a limits list
LimDone(c) ==
    /\ calls[c].op = "checkOrdersLimit"
    /\ calls[c].pc = "done"
    /\ calls[c].limits # <<>>

\* C6 as stated: a finished call has incremented the counter of every key of
\* its key set by one, accepted or rejected.
C6_EveryKeyIncremented ==
    \A c \in Slots :
        LimDone(c) =>
            \A j \in 1..Len(calls[c].limits) :
                cache[calls[c].limits[j].key] = calls[c].before[j] + 1

\* C6 amended: a finished call has incremented by one the counter of every key
\* up to and including the first key found at or over its threshold, and has
\* left the counters of the keys after that one as they were; an accepted call
\* found no such key and has incremented every key of its set.
C6_CheckedKeysIncremented ==
    \A c \in Slots :
        LimDone(c) =>
            LET ls == calls[c].limits
                i == calls[c].i
            IN  /\ \A j \in 1..Len(ls) :
                       cache[ls[j].key] = calls[c].before[j] + (IF j <= i THEN 1 ELSE 0)
                /\ \A j \in 1..(i - 1) : calls[c].before[j] < LimitValue(ls[j])
                /\ calls[c].result = "pass" =>
                       i = Len(ls) /\ calls[c].before[i] < LimitValue(ls[i])
                /\ calls[c].result = "limit" => calls[c].before[i] >= LimitValue(ls[i])

\* a call was rejected at a key that is not the last of its list
C6_Witness ==
    \E c \in Slots :
        /\ LimDone(c)
        /\ calls[c].result = "limit"
        /\ calls[c].i < Len(calls[c].limits)

\* the successful charges recorded for order oid
ChargesOf(oid) == Cardinality({j \in 1..Len(transactions) : transactions[j].OrderId = oid})

\* C1: the charge capability completes successfully at most once for every
\* order, so every order has at most one successful Transaction set, however
\* createOrder, updateOrder and markOrderAsPaid are interleaved
C1_AtMostOneCharge == \A oid \in OrderIds : ChargesOf(oid) <= 1

\* a step of an order's status that goes forward, or does not change it
Forward(a, b) ==
    \/ a = b
    \/ a = "PENDING" /\ b \in {"PAID", "ACTIVE", "ERROR", "CANCELLED"}
    \/ a = "ACTIVE" /\ b = "CANCELLED"

\* C2: every step of every operation moves the status of every order forward:
\* from PENDING to PAID, ACTIVE, ERROR or CANCELLED, from ACTIVE to CANCELLED,
\* and never out of PAID, ERROR or CANCELLED
C2_StatusOnlyForward ==
    [][\A oid \in OrderIds : Forward(orders[oid].status, orders'[oid].status)]_vars

\* no call is in flight and no write is on its way
Quiet == pendingErr = {} /\ \A c \in Slots : calls[c] = Idle

\* C3: once the calls have returned, processedAt has been written at most once
\* for every order, and an order that is PENDING and was never charged nor
\* fulfilled has processedAt unset
C3_ProcessedAtOnce ==
    Quiet =>
        \A oid \in OrderIds :
            /\ orders[oid].processedWrites <= 1
            /\ orders[oid].status = "PENDING" /\ ChargesOf(oid) = 0
                  => ~orders[oid].processedAt

\* the order a call of createOrder, updateOrder or markOrderAsPaid works on
CallOrderId(c) == IF calls[c].op = "createOrder" THEN calls[c].oid ELSE calls[c].req.id

\* C4: when createOrder, updateOrder or markOrderAsPaid has raised the failure
\* of the charge of an order that was never charged nor fulfilled, and no write
\* to the order is on its way any more, the order is in status ERROR
C4_FailedChargeEndsInError ==
    \A c \in Slots :
        /\ calls[c].op \in {"createOrder", "updateOrder", "markOrderAsPaid"}
        /\ calls[c].pc = "done"
        /\ calls[c].error = "charge failed"
        /\ CallOrderId(c) \notin pendingErr
        /\ ChargesOf(CallOrderId(c)) = 0
        /\ orders[CallOrderId(c)].status \notin {"PAID", "ACTIVE"}
        => orders[CallOrderId(c)].status = "ERROR"

\* a call of createOrder that has an outcome
CreateDone(c) == calls[c].op = "createOrder" /\ calls[c].pc = "done"

\* the errors of the validation and authorization checks of createOrder:
\* self-funding, the fee overrides, the tier, the payment method, the email,
\* the source account, the currency
CheckErrors ==
    {"orders cannot be created for a collective by that same collective",
     "only a root can change the platformFeePercent",
     "only an admin of the host can change the hostFeePercent",
     "no tier found", "you can buy up to maxQuantityPerUser per person",
     "no more tickets left", "this order requires a payment method",
     "an account already exists for this email address",
     "login to create an order for an existing open collective",
     "from collective not found",
     "no sufficient permissions to create an order on behalf of",
     "invalid currency"}

\* C7: a createOrder call that a validation or authorization check has
\* rejected has created no Order, User or Collective row (an Organization is a
\* Collective row)
C7_RejectedLeavesNoRows ==
    \A c \in Slots :
        CreateDone(c) /\ calls[c].outcome = "error" /\ calls[c].error \in CheckErrors
        => /\ Len(orders) = calls[c].rows0.orders
           /\ Len(users) = calls[c].rows0.users
           /\ Len(collectives) = calls[c].rows0.collectives

QuantityLimitError == "you can buy up to maxQuantityPerUser per person"

\* the errors of the checks that createOrder makes before the check of the
\* quantity against the tier's cap
EarlierErrors ==
    {"orders limit reached", "Recaptcha token missing",
     "login to use a payment method on file", "no collective id/website/githubHandle",
     "id or GitHub handle is mandatory", "could not verify the GitHub handle",
     "TypeError", "only a root can change the platformFeePercent", "no collective found",
     "orders cannot be created for a collective by that same collective",
     "only an admin of the host can change the hostFeePercent", "no tier found",
     "this order requires a payment method"}

UpdateDone(c) == calls[c].op = "updateSubscription" /\ calls[c].pc = "done"

\* the amount of the Subscription of order id equals amount
IsCurrentAmount(id, amount) ==
    /\ id \in OrderIds
    /\ orders[id].SubscriptionId # NoId
    /\ subs[orders[id].SubscriptionId].amount = amount

\* C9: an updateSubscription call with an amount that is the subscription's
\* current amount, or below 100, or no multiple of 100, is rejected; the
\* order's status and the subscription's isActive are what they were at the
\* call, the subscription is active when an amount check rejected the call, and
\* no Order or Subscription has been added
C9_BadAmountRejected ==
    \A c \in Slots :
        /\ UpdateDone(c)
        /\ calls[c].req.hasAmount
        /\ \/ IsCurrentAmount(calls[c].req.id, calls[c].req.amount)
           \/ calls[c].req.amount < 100
           \/ calls[c].req.amount % 100 # 0
        => /\ calls[c].outcome = "error"
           /\ Len(orders) = calls[c].rows0.orders
           /\ Len(subs) = calls[c].rows0.subs
           /\ calls[c].req.id \in OrderIds =>
                 /\ orders[calls[c].req.id].status = calls[c].rows0.status
                 /\ orders[calls[c].req.id].SubscriptionId # NoId =>
                       subs[orders[calls[c].req.id].SubscriptionId].isActive
                          = calls[c].rows0.isActive
                 /\ calls[c].error \in {"Same amount", "Invalid amount"} =>
                       subs[orders[calls[c].req.id].SubscriptionId].isActive

\* the same amount has been rejected after the payment method part ran
C9_Witness ==
    \E c \in Slots :
        /\ UpdateDone(c)
        /\ calls[c].error = "Same amount"
        /\ calls[c].req.pm.given
        /\ subs[orders[calls[c].req.id].SubscriptionId].isActive

\* C10: after a successful updateSubscription call with an amount the old
\* Subscription is not active, the old Order is CANCELLED, one Subscription has
\* been added, active and of the new amount, and one Order has been added,
\* PENDING, of the new amount and of the new Subscription
C10_AmountChangeReplacesPair ==
    \A c \in Slots :
        UpdateDone(c) /\ calls[c].outcome = "ok" /\ calls[c].req.hasAmount
        => /\ ~subs[orders[calls[c].req.id].SubscriptionId].isActive
           /\ orders[calls[c].req.id].status = "CANCELLED"
           /\ Len(subs) = calls[c].rows0.subs + 1
           /\ Len(orders) = calls[c].rows0.orders + 1
           /\ subs[Len(subs)].isActive
           /\ subs[Len(subs)].amount = calls[c].req.amount
           /\ orders[Len(orders)].status = "PENDING"
           /\ orders[Len(orders)].totalAmount = calls[c].req.amount
           /\ orders[Len(orders)].SubscriptionId = Len(subs)
           /\ orders[Len(orders)].SubscriptionId # orders[calls[c].req.id].SubscriptionId

\* an amount change has succeeded
C10_Witness ==
    \E c \in Slots :
        /\ UpdateDone(c)
        /\ calls[c].outcome = "ok"
        /\ calls[c].req.hasAmount
        /\ calls[c].newOid = Len(orders)
        /\ orders[calls[c].newOid].totalAmount = 200

\* a finished createOrder call whose request gives totalAmount 0 and no payment
\* method, to a destination that is an event
FreeEventRequest(c) ==
    /\ CreateDone(c)
    /\ calls[c].req.totalAmount = 0
    /\ ~calls[c].req.pm.given
    /\ CollectiveById(calls[c].req.collectiveId).type = "EVENT"

\* the tier of the request sets an amount and the destination is active
PaidTierOfActive(req) ==
    /\ req.tier \in 1..Len(Tiers)
    /\ Tiers[req.tier].amount > 0
    /\ CollectiveById(req.collectiveId).isActive

\* the order of the call is a confirmed free ticket
FreeTicketGranted(c) ==
    /\ calls[c].outcome = "ok"
    /\ orders[calls[c].oid].status = "PAID"
    /\ orders[calls[c].oid].processedAt
    /\ <<calls[c].userCol, calls[c].cid, "ATTENDEE">> \in members

CancelActivitiesOf(oid) ==
    Cardinality({j \in 1..Len(activities) :
                    /\ activities[j].type = "SUBSCRIPTION_CANCELED"
                    /\ activities[j].OrderId = oid})

\* C12: whatever cancelSubscription calls were made on an order, interleaved
\* or not, the order has at most one SUBSCRIPTION_CANCELED activity, and a call
\* that finds the subscription cancelled has thrown and created none
C12_AtMostOneCancelActivity ==
    \A oid \in OrderIds : CancelActivitiesOf(oid) <= 1

\* a call of cancelSubscription that has an outcome after it reached its writes
CancelWritten(c) ==
    /\ calls[c].op = "cancelSubscription"
    /\ calls[c].pc = "done"
    /\ calls[c].outcome = "ok" \/ calls[c].error = "write failed"

\* C13: once a cancelSubscription call that reached its two writes has
\* finished, with success or with the failure of a write, the Order is
\* CANCELLED and its Subscription is not active, or both are as the call found
\* them
C13_CancelAllOrNothing ==
    \A c \in Slots :
        CancelWritten(c)
        => LET order == orders[calls[c].req.id]
               sub == subs[order.SubscriptionId]
           IN  \/ order.status = "CANCELLED" /\ ~sub.isActive
               \/ /\ order.status = calls[c].rows0.status
                  /\ sub.isActive = calls[c].rows0.isActive

\* C14: no Order row has a FromCollectiveId equal to its CollectiveId, whether
\* the request named the source account or left it to be the account of the
\* user
C14_NoSelfFunding ==
    \A oid \in OrderIds : orders[oid].FromCollectiveId # orders[oid].CollectiveId

\* the request of a createOrder call whose destination exists asks for money
\* (by its totalAmount or by the amount of its tier) from an active destination
AsksPayment(c) ==
    /\ \/ calls[c].req.totalAmount > 0
       \/ calls[c].req.tier \in 1..Len(Tiers) /\ Tiers[calls[c].req.tier].amount > 0
    /\ CollectiveById(calls[c].cid).isActive

\* the request carries a payment method reference: a uuid, a token or the
\* manual type
CarriesPaymentRef(req) ==
    req.pm.given /\ (req.pm.uuid # NoStr \/ req.pm.token \/ req.pm.type = "manual")

\* C15: a createOrder call that is past its checks holds paymentRequired
\* exactly when (totalAmount > 0 or the tier's amount > 0) and the destination
\* is active; a call whose request asks for payment and carries no payment
\* method reference is rejected and persists no Order; and the error 'this
\* order requires a payment method' is raised for such requests only
C15_PaymentRequiredNeedsRef ==
    \A c \in Slots :
        calls[c].op = "createOrder" /\ CollectiveById(calls[c].cid) # NoRow
        => /\ calls[c].pc \in {"resolve", "pay", "finish"} \/ calls[c].outcome = "ok"
                 => calls[c].paymentRequired = AsksPayment(c)
           /\ CreateDone(c) /\ AsksPayment(c) /\ ~CarriesPaymentRef(calls[c].req)
                 => /\ calls[c].outcome = "error"
                    /\ calls[c].oid = NoId
                    /\ Len(orders) = calls[c].rows0.orders
           /\ CreateDone(c) /\ calls[c].error = "this order requires a payment method"
                 => AsksPayment(c) /\ ~CarriesPaymentRef(calls[c].req)

\* a request that asks for payment by its tier only, and names no payment
\* method, has been rejected for that
C15_Witness ==
    \E c \in Slots :
        /\ CreateDone(c)
        /\ calls[c].req.totalAmount = 0
        /\ AsksPayment(c)
        /\ ~CarriesPaymentRef(calls[c].req)
        /\ calls[c].error = "this order requires a payment method"
        /\ Len(orders) = 0

C17_FeeOverridesAuthorized ==
    \A j \in 1..Len(transactions) :
        LET t == transactions[j]
        IN  /\ t.platformFeePercent # 0 => IsRoot(t.user)
            /\ t.hostFeePercent # 0
                  => IsAdmin(t.user, HostCollectiveIdOf(orders[t.OrderId].CollectiveId))

\* a finished createOrder call whose request has no recaptcha token
NoTokenDone(c) == CreateDone(c) /\ ~calls[c].req.recaptchaToken

\* C18 as the claim states it: a createOrder call with no recaptcha token by
\* nobody logged in is rejected and persists no Order
C18_AnonymousNoTokenRejected ==
    \A c \in Slots :
        NoTokenDone(c) /\ calls[c].req.remoteUser = NoUser
        => calls[c].outcome = "error" /\ Len(orders) = calls[c].rows0.orders

\* C18: where NODE_ENV is neither test nor circleci, a createOrder call with
\* no recaptcha token by nobody logged in is rejected, by the recaptcha check
\* or by the limiter before it, and creates no row; a call with no token by a
\* logged-in user is never rejected by the recaptcha check; and the recaptcha
\* error is raised in no other case
C18_NoTokenRejectedOutsideTests ==
    \A c \in Slots :
        /\ NoTokenDone(c) /\ calls[c].req.remoteUser = NoUser
           /\ nodeEnv \notin {"test", "circleci"}
              => /\ calls[c].outcome = "error"
                 /\ calls[c].error \in {"Recaptcha token missing", "orders limit reached"}
                 /\ Len(orders) = calls[c].rows0.orders
                 /\ Len(users) = calls[c].rows0.users
                 /\ Len(collectives) = calls[c].rows0.collectives
        /\ NoTokenDone(c) /\ calls[c].req.remoteUser # NoUser
              => calls[c].error # "Recaptcha token missing"
        /\ CreateDone(c) /\ calls[c].error = "Recaptcha token missing"
              => /\ ~calls[c].req.recaptchaToken
                 /\ calls[c].req.remoteUser = NoUser
                 /\ nodeEnv \notin {"test", "circleci"}

\* in production a request with no token by nobody logged in has been rejected
\* by the recaptcha check, after a request with no token by user 1 has left an
\* order
C18_Witness ==
    \E c \in Slots :
        /\ NoTokenDone(c)
        /\ calls[c].req.remoteUser = NoUser
        /\ nodeEnv = "production"
        /\ calls[c].error = "Recaptcha token missing"
        /\ Len(orders) = 1
        /\ orders[1].status = "PAID"

\* C19: for every tier with a capacity, the quantities of the Orders
\* persisted for the tier add up to at most the capacity, whatever the
\* interleaving of the createOrder calls
C19_CapacityNeverExceeded ==
    \A t \in 1..Len(Tiers) :
        Tiers[t].maxQuantity > 0
        => SoldQuantity(orders, t, Len(orders)) <= Tiers[t].maxQuantity

\* the requester of call c is an admin of the host of the destination of the
\* order that the call names
ByHostAdmin(c) ==
    IsAdmin(calls[c].req.remoteUser,
            HostCollectiveIdOf(orders[calls[c].req.id].CollectiveId))

\* C20: with the calls made one after the other, markOrderAsPaid is about to
\* invoke the charge only for an order in status PENDING and a requester who
\* is an admin of the host of the order's destination; a call that succeeded
\* was such a call and executed one charge; every other call is rejected,
\* executes no charge and leaves the order as it was
C20_MarkOnlyPendingByHostAdmin ==
    \A c \in Slots :
        calls[c].op = "markOrderAsPaid"
        => /\ calls[c].pc = "execute"
                 => orders[calls[c].req.id].status = "PENDING" /\ ByHostAdmin(c)
           /\ calls[c].pc = "done" /\ calls[c].outcome = "ok"
                 => /\ calls[c].rows0.order.status = "PENDING"
                    /\ ByHostAdmin(c)
                    /\ Len(transactions) = calls[c].rows0.transactions + 1
                    /\ transactions[Len(transactions)].OrderId = calls[c].req.id
           /\ calls[c].pc = "done"
              /\ (calls[c].rows0.order.status # "PENDING" \/ ~ByHostAdmin(c))
                 => /\ calls[c].outcome = "error"
                    /\ Len(transactions) = calls[c].rows0.transactions
                    /\ orders[calls[c].req.id] = calls[c].rows0.order

\* an admin of the host has marked a PENDING order as paid, and a call for an
\* order that is not PENDING any more has been rejected
C20_Witness ==
    \E c \in Slots :
        /\ calls[c].op = "markOrderAsPaid"
        /\ calls[c].pc = "done"
        /\ calls[c].error = "the order's status must be PENDING"
        /\ ByHostAdmin(c)
        /\ orders[calls[c].req.id].status = "PAID"
        /\ \E j \in 1..Len(transactions) :
              transactions[j].OrderId = calls[c].req.id /\ transactions[j].user = 2

\* a createOrder or cancelSubscription call has finished and one of its side
\* effects (an activity, the FUNDRAISER grant) has failed
SideEffectFailed(c) ==
    /\ calls[c].op \in {"createOrder", "cancelSubscription"}
    /\ calls[c].pc = "done"
    /\ calls[c].effect = "failed"

\* the status that the operation of call c gives its order
StatusGiven(c) ==
    IF calls[c].op = "cancelSubscription" THEN "CANCELLED"
    ELSE IF calls[c].paymentRequired THEN ChargedStatus(calls[c].req.interval)
    ELSE IF CollectiveById(calls[c].cid).type = "EVENT" THEN "PAID"
    ELSE "PENDING"

\* C21: a createOrder or cancelSubscription call in which the FUNDRAISER
\* grant, the TICKET_CONFIRMED activity or the SUBSCRIPTION_CANCELED activity
\* has failed returns its Order to the caller, and the order has the status
\* the operation gave it
C21_SideEffectFailureNotRaised ==
    \A c \in Slots :
        SideEffectFailed(c)
        => /\ calls[c].outcome = "ok"
           /\ orders[CallOrderId(c)].status = StatusGiven(c)

\* a createOrder call has returned the order of a pledge: payment was not
\* required, an interval was asked, the destination is a COLLECTIVE
PledgeDone(c) ==
    /\ CreateDone(c)
    /\ calls[c].outcome = "ok"
    /\ ~calls[c].paymentRequired
    /\ calls[c].req.interval # NoStr
    /\ CollectiveById(calls[c].cid).type = "COLLECTIVE"

\* C22: the order of a pledge is PENDING and is linked to one Subscription,
\* created by the call, that is not active and has the totalAmount, the
\* currency and the interval of the persisted order
C22_PledgeSubscriptionMatchesOrder ==
    \A c \in Slots :
        PledgeDone(c)
        => LET order == orders[calls[c].oid]
           IN  /\ order.status = "PENDING"
               /\ order.SubscriptionId = Len(subs)
               /\ Len(subs) = 1
               /\ ~subs[order.SubscriptionId].isActive
               /\ subs[order.SubscriptionId].interval = order.interval
               /\ subs[order.SubscriptionId].amount = order.totalAmount
               /\ subs[order.SubscriptionId].currency = order.currency

\* the keys that the limiter is said to check for a createOrder request: for a
\* logged-in requester the key of the account and the key of the account with
\* the destination; for nobody logged in the key of the email hash and the key
\* of the address hash, each alone and each with the destination
StatedKeys(req) ==
    IF req.remoteUser # NoUser
    THEN {<<"account", UserCollectiveId(req.remoteUser)>>,
          <<"account_collective", UserCollectiveId(req.remoteUser), req.collectiveId>>}
    ELSE (IF req.email # NoStr
          THEN {<<"email", Md5(req.email)>>,
                <<"email_collective", Md5(req.email), req.collectiveId>>}
          ELSE {})
         \cup {<<"ip", Md5(ReqIp)>>, <<"ip_collective", Md5(ReqIp), req.collectiveId>>}

\* C23: where the limiter runs, the keys of the limits list that
\* checkOrdersLimit builds for a createOrder request to a destination are the
\* account keys for a logged-in requester, and the email and address keys,
\* alone and with the destination, for nobody logged in
C23_LimiterKeySet ==
    \A c \in Slots :
        calls[c].op = "createOrder" /\ ~LimiterOff(nodeEnv)
        => KeysOf(OrderLimits(calls[c].req.collectiveId, calls[c].req.fromId,
                              calls[c].req.email, ReqIp))
              = StatedKeys(calls[c].req)

\* an updateSubscription call with a payment method has finished after it
\* bound the payment method
PmBound(c) ==
    /\ UpdateDone(c)
    /\ calls[c].req.pm.given
    /\ calls[c].outcome = "ok" \/ calls[c].error \in {"Same amount", "Invalid amount"}

\* the payment method that a request names by its uuid, or the one that was
\* created last
InstrumentOf(req) ==
    IF req.pm.uuid # NoStr THEN PmIdByUuid(req.pm.uuid) ELSE NewId(BasePms, Len(pms))

\* C24: after an updateSubscription call with a payment method, the
\* subscription has the nextChargeDate and chargeRetryCount of the 'updated'
\* policy when its chargeRetryCount was above 0 before the call, and the ones
\* it had when it was 0; in both cases the order's PaymentMethodId is the new
\* instrument
C24_RescheduledOnlyWhenPastDue ==
    \A c \in Slots :
        PmBound(c)
        => LET sub == subs[calls[c].rows0.order.SubscriptionId]
               sub0 == calls[c].rows0.sub
           IN  /\ sub0.chargeRetryCount > 0
                     => /\ sub.nextChargeDate = UpdatedNextChargeDate
                        /\ sub.chargeRetryCount = UpdatedRetryCount
               /\ sub0.chargeRetryCount = 0
                     => /\ sub.nextChargeDate = sub0.nextChargeDate
                        /\ sub.chargeRetryCount = sub0.chargeRetryCount
               /\ orders[calls[c].req.id].PaymentMethodId = InstrumentOf(calls[c].req)
               /\ orders[calls[c].req.id].PaymentMethodId
                     # calls[c].rows0.order.PaymentMethodId
                     \/ calls[c].req.pm.uuid # NoStr

\* a subscription that was past due has been rescheduled and bound to a new
\* payment method
C24_Witness ==
    \E c \in Slots :
        /\ PmBound(c)
        /\ calls[c].outcome = "ok"
        /\ calls[c].rows0.sub.chargeRetryCount > 0
        /\ calls[c].rows0.sub.nextChargeDate = "retry"
        /\ subs[calls[c].rows0.order.SubscriptionId].nextChargeDate = UpdatedNextChargeDate
        /\ subs[calls[c].rows0.order.SubscriptionId].chargeRetryCount = 0
        /\ orders[calls[c].req.id].PaymentMethodId = 2

\* the checks of key k in its open window that the counter of k has lost
UnderCount(k) == attempts[k] - cache[k]

C26_ErrorWrittenBeforeRaise ==
    \A c \in Slots :
        /\ CreateDone(c)
        /\ calls[c].outcome = "error"
        /\ calls[c].oid # NoId
        /\ ~calls[c].memProcessedAt
        => orders[calls[c].oid].status = "ERROR"

\* C27: after an updateSubscription call that was rejected, the order is as
\* it was before the call (its PaymentMethodId included) and so is its
\* subscription (nextChargeDate and chargeRetryCount included), also when the
\* request had both a payment method and an amount
C27_RejectedUpdateChangesNothing ==
    \A c \in Slots :
        UpdateDone(c) /\ calls[c].outcome = "error"
        => /\ orders[calls[c].req.id] = calls[c].rows0.order
           /\ calls[c].rows0.order.SubscriptionId # NoId
                 => subs[calls[c].rows0.order.SubscriptionId] = calls[c].rows0.sub

\* the CollectiveId of PaymentMethod id
PmOwnerOf(id) ==
    IF id \in 1..Len(BasePms) THEN BasePms[id].CollectiveId
    ELSE pms[id - Len(BasePms)].CollectiveId

\* C28: after an updateSubscription call that replaced the payment method, the
\* PaymentMethod of the order belongs to the order's FromCollectiveId, whether
\* it was found by its uuid or created from a token
C28_BoundInstrumentOwnedBySource ==
    \A c \in Slots :
        PmBound(c)
        => PmOwnerOf(orders[calls[c].req.id].PaymentMethodId)
              = orders[calls[c].req.id].FromCollectiveId

\* an updateSubscription call that found the subscription of its order not
\* active
FoundInactive(c) ==
    /\ UpdateDone(c)
    /\ calls[c].rows0.order # NoRow
    /\ calls[c].rows0.order.SubscriptionId # NoId
    /\ ~calls[c].rows0.isActive

AmountChanges(oid) ==
    {c \in Slots : /\ UpdateDone(c)
                   /\ calls[c].outcome = "ok"
                   /\ calls[c].req.hasAmount
                   /\ calls[c].req.id = oid}

\* order oid and the Orders that these calls created from it
OrdersFrom(oid) == {oid} \cup {calls[c].newOid : c \in AmountChanges(oid)}

\* C30: however updateSubscription amount changes of one order are
\* interleaved, of the order and the Orders created from it at most one is not
\* CANCELLED, and of their Subscriptions at most one is active
C30_OneActiveLineage ==
    \A oid \in OrderIds :
        /\ Cardinality({o \in OrdersFrom(oid) : orders[o].status # "CANCELLED"}) <= 1
        /\ Cardinality({o \in OrdersFrom(oid) :
                           /\ orders[o].SubscriptionId # NoId
                           /\ subs[orders[o].SubscriptionId].isActive}) <= 1

\* an updateSubscription call that got to the writes of its amount change and
\* has an outcome
AmountChangeEnded(c) ==
    /\ UpdateDone(c)
    /\ calls[c].req.hasAmount
    /\ calls[c].outcome = "ok" \/ calls[c].error = "write failed"

\* the Subscription of the call's order is active and the order has the status
\* the call found
OldPairUntouched(c) ==
    /\ subs[calls[c].rows0.order.SubscriptionId].isActive
    /\ orders[calls[c].req.id].status = calls[c].rows0.status

\* the old Subscription is not active, the old Order is CANCELLED, and the new
\* Order is linked to the new Subscription, which is active
NewPairComplete(c) ==
    /\ ~subs[calls[c].rows0.order.SubscriptionId].isActive
    /\ orders[calls[c].req.id].status = "CANCELLED"
    /\ calls[c].newSid # NoId
    /\ subs[calls[c].newSid].isActive
    /\ calls[c].newOid # NoId
    /\ orders[calls[c].newOid].SubscriptionId = calls[c].newSid

\* C31: when an amount change of updateSubscription has ended, with success or
\* with the failure of one of its writes, either the old Subscription is still
\* active and the old Order as it was, or the old pair is closed and the new
\* Subscription and Order are both there
C31_AmountChangeAllOrNothing ==
    \A c \in Slots : AmountChangeEnded(c) => OldPairUntouched(c) \/ NewPairComplete(c)

====
